---- MODULE Spec2Model ----
(***************************************************************************)
(* Hourly PV + storage battery + power conditioner simulation of          *)
(* HisashiMiura/storage_battery.                                           *)
(*                                                                         *)
(* Three entry points of the repository are modelled:                      *)
(*   - pvbatt.calculate          the functional hourly driver              *)
(*                               and the BatteryLogger it writes           *)
(*   - battery.Battery           the class holding SOC_d_t                 *)
(*   - functions called alone    f_E_in / f_eta_ec (pvbatt and             *)
(*                               power_conditioner.PowerConditioner),      *)
(*                               get_delta_tau_chg / get_delta_tau_dchg    *)
(* The variable entry says which of them a behaviour exercises.            *)
(*                                                                         *)
(* Real numbers are fixed-point integers.  Units:                          *)
(*   charge rate SOC, ratios r_*      1e-4        (0.56  -> 5600)          *)
(*   energy                           Wh          (1.5 kWh -> 1500)        *)
(*   efficiencies alpha, beta, lim    1e-4        (0.975 -> 9750)          *)
(*   rated / bound voltages           0.1 V       (177.6 -> 1776)          *)
(*   computed voltages (OCV, V_max)   0.01 V                               *)
(*   capacity C_fc                    mAh                                  *)
(*   operable capacity, I_max         1e-7 Ah, 1e-7 A                      *)
(*   current I of the SOC update      0.01 A                               *)
(*   auxiliary power                  W                                    *)
(* Products and sums are exact; only quotients and the square root round   *)
(* (downwards), where the source rounds to the nearest double.             *)
(***************************************************************************)
EXTENDS Integers, Sequences, FiniteSets, TLC

VARIABLES entry, spec, pc, dt, SOC_st1, rec, err, SOC_d_t, call, conv, bl

vars == <<entry, spec, pc, dt, SOC_st1, rec, err, SOC_d_t, call, conv, bl>>

(* ---------------------------------------------------------------------- *)
(* Bounds of the model                                                      *)
(* ---------------------------------------------------------------------- *)

\* number of hours of a run of calculate (8760 in the source's input files)
NumHours == 3

\* number of calls made on one Battery object
MaxCalls == 3

(* ---------------------------------------------------------------------- *)
(* Arithmetic helpers                                                       *)
(* ---------------------------------------------------------------------- *)

Min(a, b) == IF a < b THEN a ELSE b

Max(a, b) == IF a > b THEN a ELSE b

\* a quotient rounded towards zero (b > 0): the rounding of the source's
\* floating-point quotient does not depend on the sign of the dividend
Div(a, b) == IF a >= 0 THEN a \div b ELSE -((-a) \div b)

\* lo..hi contains the root; invariant lo*lo <= n < (hi+1)*(hi+1)
RECURSIVE SqrtSearch(_, _, _)
SqrtSearch(n, lo, hi) ==
    IF lo >= hi THEN lo
    ELSE LET mid == (lo + hi + 1) \div 2
         IN IF mid * mid <= n THEN SqrtSearch(n, mid, hi)
                              ELSE SqrtSearch(n, lo, mid - 1)

\* math.sqrt on a non-negative argument, rounded down
Sqrt(n) == SqrtSearch(n, 0, 46340)

(* ---------------------------------------------------------------------- *)
(* Equipment specifications                                                 *)
(* ---------------------------------------------------------------------- *)

\* one unit of a fixed-point fraction (SOC, ratios, efficiencies)
S == 10000

\* the specification written in main.py
RefSpec ==
    [ E_dash_dash_E_in_rtd_PVtoDB |-> 6000, eta_ce_lim_PVtoDB |-> 6000,
      alpha_PVtoDB |-> -126, beta_PVtoDB |-> 9750,
      E_dash_dash_E_in_rtd_PVtoSB |-> 6000, eta_ce_lim_PVtoSB |-> 6000,
      alpha_PVtoSB |-> -250, beta_PVtoSB |-> 9750,
      E_dash_dash_E_in_rtd_SBtoDB |-> 6000, eta_ce_lim_SBtoDB |-> 6000,
      alpha_SBtoDB |-> -360, beta_SBtoDB |-> 9750,
      P_aux_PCS_oprt |-> 25, P_aux_PCS_stby |-> 2,
      r_LCP_batt |-> 2000, V_rtd_batt |-> 1776,
      V_star_lower_batt |-> 1296, V_star_upper_batt |-> 1968,
      SOC_star_lower |-> 2000, SOC_star_upper |-> 8000,
      W_rtd_batt |-> 12000, r_int_dchg_batt |-> 6000 ]

\* a second valid specification: lower rated voltage, wider charge-rate window,
\* larger discharge-stop margin, smaller converters
AltSpec ==
    [ E_dash_dash_E_in_rtd_PVtoDB |-> 4000, eta_ce_lim_PVtoDB |-> 5000,
      alpha_PVtoDB |-> -200, beta_PVtoDB |-> 9600,
      E_dash_dash_E_in_rtd_PVtoSB |-> 4000, eta_ce_lim_PVtoSB |-> 5000,
      alpha_PVtoSB |-> -300, beta_PVtoSB |-> 9600,
      E_dash_dash_E_in_rtd_SBtoDB |-> 4000, eta_ce_lim_SBtoDB |-> 5000,
      alpha_SBtoDB |-> -400, beta_SBtoDB |-> 9600,
      P_aux_PCS_oprt |-> 30, P_aux_PCS_stby |-> 5,
      r_LCP_batt |-> 5000, V_rtd_batt |-> 1500,
      V_star_lower_batt |-> 1000, V_star_upper_batt |-> 1800,
      SOC_star_lower |-> 1000, SOC_star_upper |-> 9000,
      W_rtd_batt |-> 12000, r_int_dchg_batt |-> 3000 ]

\* the reference specification with a discharge-stop margin above 1: with the
\* grid available the discharge stop, 0.2 + 1.5 * 0.6 = 1.1, lies above the charge stop
OverMarginSpec == [RefSpec EXCEPT !.r_LCP_batt = 15000]

\* the reference specification with a rated voltage of 40 V: the full-charge
\* capacity is 300 Ah, and the voltage drop of the maximum discharge from the
\* upper to the lower SOC limit exceeds the open-circuit voltage
LowVoltageSpec == [RefSpec EXCEPT !.V_rtd_batt = 400]

\* the reference specification with the voltage limits exchanged
InvertedVoltageSpec == [RefSpec EXCEPT !.V_star_lower_batt = 1968, !.V_star_upper_batt = 1296]

\* the reference specification with the SOC limits exchanged
InvertedSOCSpec == [RefSpec EXCEPT !.SOC_star_lower = 8000, !.SOC_star_upper = 2000]

\* the reference specification with each lower limit equal to its upper limit
EqualLimitsSpec ==
    [RefSpec EXCEPT !.V_star_lower_batt = 1968, !.V_star_upper_batt = 1968,
                    !.SOC_star_lower = 5000, !.SOC_star_upper = 5000]

Specs == { RefSpec, AltSpec, OverMarginSpec, LowVoltageSpec, InvertedVoltageSpec, InvertedSOCSpec,
           EqualLimitsSpec }

(* ---------------------------------------------------------------------- *)
(* pvbatt.py: section 8.6, converter functions                              *)
(* ---------------------------------------------------------------------- *)

\* f_eta_ec without the lower limit of the efficiency
f_eta_ec_NoLimit(x_E_in, x_E_in_rtd, x_a, x_b, x_eta_ce_lim) ==
    IF x_E_in <= 0
    THEN x_eta_ce_lim
    ELSE (x_a * x_E_in_rtd) \div Min(x_E_in, x_E_in_rtd) + x_b

f_eta_ec(x_E_in, x_E_in_rtd, x_a, x_b, x_eta_ce_lim) ==
    IF x_E_in <= 0
    THEN x_eta_ce_lim
    ELSE Max((x_a * x_E_in_rtd) \div Min(x_E_in, x_E_in_rtd) + x_b, x_eta_ce_lim)

r_lim_rtd_num == 1

r_lim_rtd_den == 4

\* f_E_in without the lower end of the clamp
f_E_in_NoFloor(x_E_out, x_E_in_rtd, x_a, x_b) ==
    LET _E_in == Min((-x_a * x_E_in_rtd + x_E_out * S) \div x_b, x_E_in_rtd)
    IN IF _E_in * 4 < x_E_in_rtd
       THEN (x_E_out * 100) \div 96
       ELSE _E_in

f_E_in(x_E_out, x_E_in_rtd, x_a, x_b) ==
    LET _E_in == Min(Max((-x_a * x_E_in_rtd + x_E_out * S) \div x_b,
                         (x_E_in_rtd * r_lim_rtd_num) \div r_lim_rtd_den),
                     x_E_in_rtd)
    IN IF _E_in * 4 < x_E_in_rtd
       THEN (x_E_out * 100) \div 96
       ELSE _E_in

get_eta_ce_PVtoDB(x_E_in, rtd, alpha, beta, lim) == f_eta_ec(x_E_in, rtd, alpha, beta, lim)

f_E_out_PVtoDB(x_E_in, rtd, alpha, beta, lim) ==
    (get_eta_ce_PVtoDB(x_E_in, rtd, alpha, beta, lim) * Min(x_E_in, rtd)) \div S

f_E_dash_dash_in_PVtoDB(x_E_out, rtd, alpha, beta) == f_E_in(x_E_out, rtd, alpha, beta)

get_eta_ce_PVtoSB(x_E_in, rtd, alpha, beta, lim) == f_eta_ec(x_E_in, rtd, alpha, beta, lim)

f_E_dash_dash_out_PVtoSB(x_E_in, rtd, alpha, beta, lim) ==
    (get_eta_ce_PVtoSB(x_E_in, rtd, alpha, beta, lim) * Min(x_E_in, rtd)) \div S

f_E_dash_dash_in_PVtoSB(x_E_out, rtd, alpha, beta) == f_E_in(x_E_out, rtd, alpha, beta)

get_eta_ce_SBtoDB(x_E_in, rtd, alpha, beta, lim) == f_eta_ec(x_E_in, rtd, alpha, beta, lim)

f_E_out_SBtoDB(x_E_in, rtd, alpha, beta, lim) ==
    (get_eta_ce_SBtoDB(x_E_in, rtd, alpha, beta, lim) * Min(x_E_in, rtd)) \div S

f_E_dash_dash_in_SBtoDB(x_E_out, rtd, alpha, beta) == f_E_in(x_E_out, rtd, alpha, beta)

(* ---------------------------------------------------------------------- *)
(* pvbatt.py: sections 5 to 8.5, the dispatch of one hour                   *)
(* ---------------------------------------------------------------------- *)

\* get_E_E_PV_h that counts all the PV supply as consumed in the house
get_E_E_PV_h_WholeSupply(E_E_srpl, E_E_PV_max_sup, E_E_dmd_incl, SC) == E_E_PV_max_sup

get_E_E_PV_h(E_E_srpl, E_E_PV_max_sup, E_E_dmd_incl, SC) ==
    IF SC
    THEN (IF E_E_srpl <= 0 THEN E_E_PV_max_sup ELSE E_E_dmd_incl)
    ELSE (IF E_E_srpl <= 0 THEN E_E_PV_max_sup ELSE E_E_dmd_incl)

\* get_E_E_PV_sell that exports the whole surplus, the charged part included
get_E_E_PV_sell_WholeSurplus(E_E_srpl, E_E_PV_chg, SC) ==
    IF SC
    THEN (IF E_E_srpl <= 0 THEN 0 ELSE E_E_srpl)
    ELSE (IF E_E_srpl <= 0 THEN 0 ELSE 0)

get_E_E_PV_sell(E_E_srpl, E_E_PV_chg, SC) ==
    IF SC
    THEN (IF E_E_srpl <= 0 THEN 0 ELSE E_E_srpl - E_E_PV_chg)
    ELSE (IF E_E_srpl <= 0 THEN 0 ELSE 0)

\* get_E_E_PV_chg that charges the whole surplus, whatever the battery can take
get_E_E_PV_chg_Unlimited(E_E_srpl, E_E_SB_max_chg, SC) ==
    IF SC
    THEN (IF E_E_srpl <= 0 THEN 0 ELSE E_E_srpl)
    ELSE (IF E_E_srpl <= 0 THEN 0 ELSE E_E_srpl)

\* get_E_E_PV_chg that fills the battery also in an hour without surplus
get_E_E_PV_chg_AlsoWithoutSurplus(E_E_srpl, E_E_SB_max_chg, SC) ==
    IF E_E_srpl <= 0 THEN E_E_SB_max_chg ELSE Min(E_E_srpl, E_E_SB_max_chg)

get_E_E_PV_chg(E_E_srpl, E_E_SB_max_chg, SC) ==
    IF SC
    THEN (IF E_E_srpl <= 0 THEN 0 ELSE Min(E_E_srpl, E_E_SB_max_chg))
    ELSE (IF E_E_srpl <= 0 THEN 0 ELSE Min(E_E_srpl, E_E_SB_max_chg))

\* get_E_E_PSS_h that serves the whole demand, whatever the system can supply
get_E_E_PSS_h_Unlimited(E_E_srpl, E_E_dmd_incl, E_E_PSS_max_sup, E_E_PV_h, SC) ==
    IF SC
    THEN (IF E_E_srpl <= 0 THEN E_E_dmd_incl - E_E_PV_h ELSE 0)
    ELSE (IF E_E_srpl <= 0 THEN E_E_dmd_incl - E_E_PV_h ELSE 0)

get_E_E_PSS_h(E_E_srpl, E_E_dmd_incl, E_E_PSS_max_sup, E_E_PV_h, SC) ==
    IF SC
    THEN (IF E_E_srpl <= 0 THEN Min(E_E_dmd_incl, E_E_PSS_max_sup) - E_E_PV_h ELSE 0)
    ELSE (IF E_E_srpl <= 0 THEN Min(E_E_dmd_incl, E_E_PSS_max_sup) - E_E_PV_h ELSE 0)

get_E_E_PSS_max_sup(E_E_PV_max_sup, E_E_SB_max_sup) == E_E_PV_max_sup + E_E_SB_max_sup

get_E_E_srpl(E_E_PV_max_sup, E_E_dmd_incl) == Max(E_E_PV_max_sup - E_E_dmd_incl, 0)

get_E_E_dmd_incl(E_E_dmd_excl, E_E_aux_PSS) == E_E_dmd_excl + E_E_aux_PSS

get_E_E_aux_PSS(E_E_aux_PCS, E_E_aux_others) == E_E_aux_PCS + E_E_aux_others

\* the input of the PV-to-battery path is E_E_PV_chg * eta_ce with
\* eta_ce = E_dash_dash_E_srpl / E_E_srpl (or the limit when there is no surplus)
get_E_dash_dash_E_PV_chg(E_E_PV_chg, E_dash_dash_E_srpl, E_E_srpl, rtd, alpha, beta, lim) ==
    LET x_E_in == IF E_E_srpl <= 0
                  THEN (E_E_PV_chg * lim) \div S
                  ELSE (E_E_PV_chg * E_dash_dash_E_srpl) \div E_E_srpl
    IN f_E_dash_dash_out_PVtoSB(x_E_in, rtd, alpha, beta, lim)

get_E_dash_dash_E_srpl(E_E_srpl, rtd, alpha, beta) ==
    f_E_dash_dash_in_PVtoDB(E_E_srpl, rtd, alpha, beta)

get_E_dash_dash_E_SB_sup(E_E_SB_sup, rtd, alpha, beta) ==
    f_E_dash_dash_in_SBtoDB(E_E_SB_sup, rtd, alpha, beta)

get_E_E_SB_sup(E_E_PSS_h) == E_E_PSS_h

get_E_E_PV_max_sup(E_dash_dash_E_PV_max_sup, rtd, alpha, beta, lim) ==
    IF E_dash_dash_E_PV_max_sup > 0
    THEN f_E_out_PVtoDB(E_dash_dash_E_PV_max_sup, rtd, alpha, beta, lim)
    ELSE 0

get_E_E_SB_max_sup(E_dash_dash_E_SB_max_sup, rtd, alpha, beta, lim) ==
    IF E_dash_dash_E_SB_max_sup > 0
    THEN f_E_out_SBtoDB(E_dash_dash_E_SB_max_sup, rtd, alpha, beta, lim)
    ELSE 0

get_E_dash_dash_E_PV_max_sup(E_dash_dash_E_PV_gen) == E_dash_dash_E_PV_gen

get_E_dash_dash_E_SB_max_sup(E_dash_dash_E_SB_max_dchg) == E_dash_dash_E_SB_max_dchg

\* with no surplus the source returns the efficiency limit itself, read as kWh
get_E_E_SB_max_chg(E_dash_dash_E_SB_max_chg, E_E_srpl, E_dash_dash_E_srpl, rtd, alpha, beta, lim) ==
    IF E_E_srpl = 0
    THEN lim \div 10
    ELSE (f_E_dash_dash_in_PVtoSB(E_dash_dash_E_SB_max_chg, rtd, alpha, beta) * E_E_srpl)
             \div E_dash_dash_E_srpl

get_E_E_aux_PCS(P_aux_PCS_oprt, tau_oprt_PSS, P_aux_PCS_stby) ==
    P_aux_PCS_oprt * tau_oprt_PSS + P_aux_PCS_stby * (1 - tau_oprt_PSS)

P_aux_others_oprt == 3

P_aux_others_stby == 2

get_E_E_aux_others(P_oprt, tau_oprt_PSS, P_stby) ==
    P_oprt * tau_oprt_PSS + P_stby * (1 - tau_oprt_PSS)

\* an operating time that takes any demand as served, whatever the battery can give
get_tau_oprt_PSS_AnyDemand(E_dash_dash_E_PV_gen, E_E_dmd_excl, E_dash_dash_E_SB_max_dchg) ==
    IF E_dash_dash_E_PV_gen > 0 \/ E_E_dmd_excl > 0 THEN 1 ELSE 0

get_tau_oprt_PSS(E_dash_dash_E_PV_gen, E_E_dmd_excl, E_dash_dash_E_SB_max_dchg) ==
    IF E_dash_dash_E_PV_gen > 0
    THEN 1
    ELSE IF E_E_dmd_excl > 0 /\ E_dash_dash_E_SB_max_dchg > 0 THEN 1 ELSE 0

(* ---------------------------------------------------------------------- *)
(* pvbatt.py: section 9, battery unit (functional form)                     *)
(* ---------------------------------------------------------------------- *)

\* a function of the source either returns a value or raises ValueError
Ret(v) == [raised |-> FALSE, v |-> v, msg |-> ""]

Raise(m) == [raised |-> TRUE, v |-> 0, msg |-> m]

get_K_0 == 92027

get_K_1 == 31524

get_K_2 == -61051

get_K_3 == 58010

get_K_4 == 3

get_K_5 == -8345

get_K_6 == -2122

\* x_SOC ** k
RECURSIVE Pow(_, _)
Pow(x_SOC, k) == IF k = 0 THEN S ELSE (Pow(x_SOC, k - 1) * x_SOC) \div S

\* open-circuit voltage; coefficients in 1e-5, result in 0.01 V
f_OCV(x_SOC, x_T_amb, x_type, x_Vrtd) ==
    LET nOCV == get_K_0
                + (get_K_1 * Pow(x_SOC, 1)) \div S
                + (get_K_2 * Pow(x_SOC, 2)) \div S
                + (get_K_3 * Pow(x_SOC, 3)) \div S
                + (get_K_4 * Pow(x_SOC, 4)) \div S
                + (get_K_5 * Pow(x_SOC, 5)) \div S
                + (get_K_6 * Pow(x_SOC, 6)) \div S
    IN (nOCV * x_Vrtd) \div S

\* internal resistance, milliohm
f_R_intr(x_T_amb, x_type) == 500

get_R_intr(T_amb_bmdl, type_batt) == f_R_intr(T_amb_bmdl, type_batt)

\* theta + 273.16, in 0.01 K
get_T(theta) == theta * 100 + 27316

\* get_type_batt with the ratio 1.7 itself left in type 2
get_type_batt_Above17(V_star_upper_batt, V_star_lower_batt) ==
    IF V_star_upper_batt * 100 > 170 * V_star_lower_batt THEN 3
    ELSE IF V_star_upper_batt * 100 >= 145 * V_star_lower_batt THEN 2
    ELSE 1

get_type_batt(V_star_upper_batt, V_star_lower_batt) ==
    IF V_star_upper_batt * 100 >= 170 * V_star_lower_batt THEN 3
    ELSE IF V_star_upper_batt * 100 >= 145 * V_star_lower_batt THEN 2
    ELSE 1

\* W_rtd_batt * 1000 / V_rtd_batt, in mAh
get_C_fc_rtd(W_rtd_batt, V_rtd_batt) == (W_rtd_batt * S) \div V_rtd_batt

get_C_fc_d_t(C_fc_rtd) == C_fc_rtd

get_SOC_star_max(SOC_star_upper) == SOC_star_upper

get_SOC_star_min(SOC_star_lower, SOC_star_upper, r_LCP_batt, SC) ==
    IF SC
    THEN SOC_star_lower + (r_LCP_batt * (SOC_star_upper - SOC_star_lower)) \div S
    ELSE SOC_star_lower

\* operable capacities, in 1e-7 Ah (mAh times 1e-4)
get_C_oprt_dchg_0(C_fc, SOC_star_max, SOC_star_min, r_int_dchg_batt) ==
    C_fc * (((SOC_star_max - SOC_star_min) * r_int_dchg_batt) \div S)

get_C_oprt_dchg(C_fc, SOC_st1_previoushour, SOC_star_min) ==
    C_fc * (SOC_st1_previoushour - SOC_star_min)

get_C_oprt_chg(C_fc, SOC_star_max, SOC_star_min, C_oprt_dchg) ==
    C_fc * (SOC_star_max - SOC_star_min) - C_oprt_dchg

get_SOC_st0(SOC_star_min, C_oprt_dchg, C_fc) == SOC_star_min + C_oprt_dchg \div C_fc

get_delta_tau_max_chg_d_t == 1

get_delta_tau_max_dchg_d_t == 1

get_I_max_chg(C_oprt_chg, delta_tau_max_chg) == C_oprt_chg \div delta_tau_max_chg

get_I_max_dchg(C_oprt_dchg, delta_tau_max_dchg) == C_oprt_dchg \div delta_tau_max_dchg

\* I * R * dSOC in 0.01 V, for I in 1e-7 A, R in milliohm, dSOC in 1e-4
IRdSOC(I, R, dSOC) == ((((I \div S) * R) \div S) * dSOC) \div S

get_V_max_chg(SOC_st0, SOC_star_max, T_amb_bmdl, type_batt, V_rtd_batt, I_max_chg, R_intr) ==
    LET OCV == (f_OCV(SOC_st0, T_amb_bmdl, type_batt, V_rtd_batt)
                + f_OCV(SOC_star_max, T_amb_bmdl, type_batt, V_rtd_batt)) \div 2
        V_max_chg == OCV + IRdSOC(I_max_chg, R_intr, SOC_star_max - SOC_st0)
    IN IF V_max_chg < 0 THEN Raise("V_max_chg < 0") ELSE Ret(V_max_chg)

get_V_max_dchg(SOC_st0, SOC_star_min, T_amb_bmdl, type_batt, V_rtd_batt, I_max_dchg, R_intr) ==
    LET OCV == (f_OCV(SOC_st0, T_amb_bmdl, type_batt, V_rtd_batt)
                + f_OCV(SOC_star_min, T_amb_bmdl, type_batt, V_rtd_batt)) \div 2
        V_max_dchg == OCV - IRdSOC(I_max_dchg, R_intr, SOC_st0 - SOC_star_min)
    IN IF V_max_dchg < 0 THEN Raise("V_max_dchg < 0") ELSE Ret(V_max_dchg)

\* I * V * delta_tau / 1000 in Wh, for I in 1e-7 A and V in 0.01 V
get_E_dash_dash_E_SB_max_chg(I_max_chg, V_max_chg, delta_tau_max_chg) ==
    ((I_max_chg \div S) * V_max_chg * delta_tau_max_chg) \div 100000

get_E_dash_dash_E_SB_max_dchg(I_max_dchg, V_max_dchg, delta_tau_max_dchg) ==
    ((I_max_dchg \div S) * V_max_dchg * delta_tau_max_dchg) \div 100000

get_E_dash_dash_E_SB_chg(E_dash_dash_E_PV_chg) == E_dash_dash_E_PV_chg

get_E_dash_dash_E_SB_dchg(E_dash_dash_E_SB_sup) == E_dash_dash_E_SB_sup

\* get_delta_tau_chg without the case of an hour that neither charges nor discharges
get_delta_tau_chg_NoIdleCase(E_dash_dash_E_SB_chg, E_dash_dash_E_SB_dchg) ==
    IF E_dash_dash_E_SB_chg > 0 /\ E_dash_dash_E_SB_dchg = 0 THEN Ret(1)
    ELSE IF E_dash_dash_E_SB_chg = 0 /\ E_dash_dash_E_SB_dchg > 0 THEN Ret(0)
    ELSE Raise("E_dash_dash_E_SB_chg, E_dash_dash_E_SB_dchg")

get_delta_tau_chg(E_dash_dash_E_SB_chg, E_dash_dash_E_SB_dchg) ==
    IF E_dash_dash_E_SB_chg > 0 /\ E_dash_dash_E_SB_dchg = 0 THEN Ret(1)
    ELSE IF E_dash_dash_E_SB_chg = 0 /\ E_dash_dash_E_SB_dchg > 0 THEN Ret(0)
    ELSE IF E_dash_dash_E_SB_chg = 0 /\ E_dash_dash_E_SB_dchg = 0 THEN Ret(0)
    ELSE Raise("E_dash_dash_E_SB_chg, E_dash_dash_E_SB_dchg")

get_delta_tau_dchg(E_dash_dash_E_SB_chg, E_dash_dash_E_SB_dchg) ==
    IF E_dash_dash_E_SB_chg > 0 /\ E_dash_dash_E_SB_dchg = 0 THEN Ret(0)
    ELSE IF E_dash_dash_E_SB_chg = 0 /\ E_dash_dash_E_SB_dchg > 0 THEN Ret(1)
    ELSE IF E_dash_dash_E_SB_chg = 0 /\ E_dash_dash_E_SB_dchg = 0 THEN Ret(0)
    ELSE Raise("E_dash_dash_E_SB_chg, E_dash_dash_E_SB_dchg")

\* E * 1000 / (C_fc / delta_t) / V_rtd_batt in 1e-4; C_fc * V_rtd_batt is in 1e-4 Wh
dSOC_hat(E, C_fc, delta_t, V_rtd_batt) == Div(E * S, ((C_fc \div delta_t) * V_rtd_batt) \div S)

get_SOC_hat_st1(SOC_st0, C_fc, delta_t_chg, delta_t_dchg, V_rtd_batt, E_dash_dash_E_SB_chg, E_dash_dash_E_SB_dchg) ==
    IF E_dash_dash_E_SB_chg > 0 /\ E_dash_dash_E_SB_dchg = 0
    THEN SOC_st0 + dSOC_hat(E_dash_dash_E_SB_chg, C_fc, delta_t_chg, V_rtd_batt)
    ELSE IF E_dash_dash_E_SB_chg = 0 /\ E_dash_dash_E_SB_dchg > 0
    THEN SOC_st0 - dSOC_hat(E_dash_dash_E_SB_dchg, C_fc, delta_t_dchg, V_rtd_batt)
    ELSE SOC_st0

get_SOC_hat_st0(SOC_st_0) == SOC_st_0

get_V_OC(SOC_st0, SOC_hat_st1, E_dash_dash_E_SB_chg, E_dash_dash_E_SB_dchg, T_amb_bmdl, type_batt, V_rtd_batt) ==
    IF E_dash_dash_E_SB_chg > 0 \/ E_dash_dash_E_SB_dchg > 0
    THEN (f_OCV(get_SOC_hat_st0(SOC_st0), T_amb_bmdl, type_batt, V_rtd_batt)
          + f_OCV(SOC_hat_st1, T_amb_bmdl, type_batt, V_rtd_batt)) \div 2
    ELSE 0

\* 4.0 * R * E * 1000 in (0.01 V)^2, for R in milliohm and E in Wh
FourRE(R_intr, E) == 4 * R_intr * E * 10

\* a voltage difference in 0.01 V over 2 R, as a current in 0.01 A
Over2R(dV, R_intr) == Div(dV * 1000, 2 * R_intr)

get_I_chg(E_dash_dash_E_SB_chg, E_dash_dash_E_SB_dchg, V_OC, R_intr) ==
    IF E_dash_dash_E_SB_chg > 0 /\ E_dash_dash_E_SB_dchg = 0
    THEN Over2R(-1 * V_OC + Sqrt(V_OC * V_OC + FourRE(R_intr, E_dash_dash_E_SB_chg)), R_intr)
    ELSE IF E_dash_dash_E_SB_chg = 0 /\ E_dash_dash_E_SB_dchg > 0 THEN 0
    ELSE 0

get_I_dchg(E_dash_dash_E_SB_chg, E_dash_dash_E_SB_dchg, V_OC, R_intr) ==
    IF E_dash_dash_E_SB_chg > 0 /\ E_dash_dash_E_SB_dchg = 0 THEN 0
    ELSE IF E_dash_dash_E_SB_chg = 0 /\ E_dash_dash_E_SB_dchg > 0
    THEN Over2R(V_OC - Sqrt(Max(0, V_OC * V_OC - FourRE(R_intr, E_dash_dash_E_SB_dchg))), R_intr)
    ELSE 0

\* I * delta_tau / C_fc in 1e-4, for I in 0.01 A and C_fc in mAh
IdtOverC(I, delta_tau, C_fc) == Div(I * delta_tau * 100000, C_fc)

\* get_SOC_st1 that falls to the lower bound in an hour without charge or discharge
get_SOC_st1_IdleToMin(SOC_st0, SOC_star_max, SOC_star_min, I_chg, I_dchg, delta_tau_chg, delta_tau_dchg, C_fc, E_dash_dash_E_SB_chg, E_dash_dash_E_SB_dchg) ==
    IF E_dash_dash_E_SB_chg > 0 /\ E_dash_dash_E_SB_dchg = 0
    THEN Min(SOC_st0 + IdtOverC(I_chg, delta_tau_chg, C_fc), SOC_star_max)
    ELSE IF E_dash_dash_E_SB_chg = 0 /\ E_dash_dash_E_SB_dchg > 0
    THEN Max(SOC_st0 - IdtOverC(I_dchg, delta_tau_dchg, C_fc), SOC_star_min)
    ELSE SOC_star_min

\* get_SOC_st1 that does not stop the discharge at the lower bound
get_SOC_st1_NoLowerStop(SOC_st0, SOC_star_max, SOC_star_min, I_chg, I_dchg, delta_tau_chg, delta_tau_dchg, C_fc, E_dash_dash_E_SB_chg, E_dash_dash_E_SB_dchg) ==
    IF E_dash_dash_E_SB_chg > 0 /\ E_dash_dash_E_SB_dchg = 0
    THEN Min(SOC_st0 + IdtOverC(I_chg, delta_tau_chg, C_fc), SOC_star_max)
    ELSE IF E_dash_dash_E_SB_chg = 0 /\ E_dash_dash_E_SB_dchg > 0
    THEN SOC_st0 - IdtOverC(I_dchg, delta_tau_dchg, C_fc)
    ELSE SOC_st0

get_SOC_st1(SOC_st0, SOC_star_max, SOC_star_min, I_chg, I_dchg, delta_tau_chg, delta_tau_dchg, C_fc, E_dash_dash_E_SB_chg, E_dash_dash_E_SB_dchg) ==
    IF E_dash_dash_E_SB_chg > 0 /\ E_dash_dash_E_SB_dchg = 0
    THEN Min(SOC_st0 + IdtOverC(I_chg, delta_tau_chg, C_fc), SOC_star_max)
    ELSE IF E_dash_dash_E_SB_chg = 0 /\ E_dash_dash_E_SB_dchg > 0
    THEN Max(SOC_st0 - IdtOverC(I_dchg, delta_tau_dchg, C_fc), SOC_star_min)
    ELSE SOC_st0

(* ---------------------------------------------------------------------- *)
(* pvbatt.calculate: one iteration of the hourly loop                       *)
(* ---------------------------------------------------------------------- *)

Abort(m) == [ok |-> FALSE, msg |-> m]

\* lines 1715-1760: the operable capacities, the state of charge at the start of
\* the hour and the largest charge and discharge of the hour.
\* first: dt == 0; SOC_prev: SOC_st1 of the previous iteration
calculate_capacity(sp, first, SOC_prev, SOC_star_min, SOC_star_max, theta_ex) ==
    LET V_rtd_batt == sp.V_rtd_batt
        type_batt == get_type_batt(sp.V_star_upper_batt, sp.V_star_lower_batt)
        T_amb_bmdl == get_T(theta_ex)
        C_fc == get_C_fc_d_t(get_C_fc_rtd(sp.W_rtd_batt, sp.V_rtd_batt))
        delta_tau_max_chg == get_delta_tau_max_chg_d_t
        delta_t_max_dchg == get_delta_tau_max_dchg_d_t
        C_oprt_dchg == IF first
                       THEN get_C_oprt_dchg_0(C_fc, SOC_star_max, SOC_star_min, sp.r_int_dchg_batt)
                       ELSE get_C_oprt_dchg(C_fc, SOC_prev, SOC_star_min)
        C_oprt_chg == get_C_oprt_chg(C_fc, SOC_star_max, SOC_star_min, C_oprt_dchg)
        I_max_chg == get_I_max_chg(C_oprt_chg, delta_tau_max_chg)
        R_intr == get_R_intr(T_amb_bmdl, type_batt)
        SOC_st0 == get_SOC_st0(SOC_star_min, C_oprt_dchg, C_fc)
        V_max_chg == get_V_max_chg(SOC_st0, SOC_star_max, T_amb_bmdl, type_batt, V_rtd_batt, I_max_chg, R_intr)
        I_max_dchg == get_I_max_dchg(C_oprt_dchg, delta_t_max_dchg)
        V_max_dchg == get_V_max_dchg(SOC_st0, SOC_star_min, T_amb_bmdl, type_batt, V_rtd_batt, I_max_dchg, R_intr)
    IN [ SOC_star_min |-> SOC_star_min, SOC_star_max |-> SOC_star_max,
         type_batt |-> type_batt, T_amb_bmdl |-> T_amb_bmdl, C_fc |-> C_fc,
         R_intr |-> R_intr, SOC_st0 |-> SOC_st0,
         V_max_chg |-> V_max_chg, V_max_dchg |-> V_max_dchg,
         E_dash_dash_E_SB_max_chg |-> get_E_dash_dash_E_SB_max_chg(I_max_chg, V_max_chg.v, delta_tau_max_chg),
         E_dash_dash_E_SB_max_dchg |-> get_E_dash_dash_E_SB_max_dchg(I_max_dchg, V_max_dchg.v, delta_t_max_dchg) ]

\* lines 1762-1818: the operating time, the auxiliary load, what the system can
\* supply at most, and the surplus. cap: the result of calculate_capacity
calculate_balance(sp, E_E_dmd_excl, E_dash_dash_E_PV_gen, cap) ==
    LET tau_oprt_PSS == get_tau_oprt_PSS(E_dash_dash_E_PV_gen, E_E_dmd_excl, cap.E_dash_dash_E_SB_max_dchg)
        E_E_aux_PCS == get_E_E_aux_PCS(sp.P_aux_PCS_oprt, tau_oprt_PSS, sp.P_aux_PCS_stby)
        E_E_aux_others == get_E_E_aux_others(P_aux_others_oprt, tau_oprt_PSS, P_aux_others_stby)
        E_E_aux_PSS == get_E_E_aux_PSS(E_E_aux_PCS, E_E_aux_others)
        E_dash_dash_E_SB_max_sup == get_E_dash_dash_E_SB_max_sup(cap.E_dash_dash_E_SB_max_dchg)
        E_dash_dash_E_PV_max_sup == get_E_dash_dash_E_PV_max_sup(E_dash_dash_E_PV_gen)
        E_E_SB_max_sup == get_E_E_SB_max_sup(E_dash_dash_E_SB_max_sup, sp.E_dash_dash_E_in_rtd_SBtoDB,
                                             sp.alpha_SBtoDB, sp.beta_SBtoDB, sp.eta_ce_lim_SBtoDB)
        E_E_PV_max_sup == get_E_E_PV_max_sup(E_dash_dash_E_PV_max_sup, sp.E_dash_dash_E_in_rtd_PVtoDB,
                                             sp.alpha_PVtoDB, sp.beta_PVtoDB, sp.eta_ce_lim_PVtoDB)
        E_E_dmd_incl == get_E_E_dmd_incl(E_E_dmd_excl, E_E_aux_PSS)
    IN [ E_E_dmd_excl |-> E_E_dmd_excl, E_dash_dash_E_PV_gen |-> E_dash_dash_E_PV_gen,
         tau_oprt_PSS |-> tau_oprt_PSS,
         E_E_aux_PCS |-> E_E_aux_PCS, E_E_aux_PSS |-> E_E_aux_PSS,
         E_dash_dash_E_SB_max_sup |-> E_dash_dash_E_SB_max_sup,
         E_dash_dash_E_PV_max_sup |-> E_dash_dash_E_PV_max_sup,
         E_E_SB_max_sup |-> E_E_SB_max_sup, E_E_PV_max_sup |-> E_E_PV_max_sup,
         E_E_PSS_max_sup |-> get_E_E_PSS_max_sup(E_E_PV_max_sup, E_E_SB_max_sup),
         E_E_dmd_incl |-> E_E_dmd_incl,
         E_E_srpl |-> get_E_E_srpl(E_E_PV_max_sup, E_E_dmd_incl) ]

\* lines 1820-1827: the surplus on the PV side and the largest charge it allows.
\* bal: the result of calculate_balance
calculate_surplus(sp, cap, bal) ==
    LET E_dash_dash_E_srpl == IF bal.E_E_srpl > 0
                              THEN get_E_dash_dash_E_srpl(bal.E_E_srpl, sp.E_dash_dash_E_in_rtd_PVtoDB,
                                                          sp.alpha_PVtoDB, sp.beta_PVtoDB)
                              ELSE 0
    IN [ E_dash_dash_E_srpl |-> E_dash_dash_E_srpl,
         E_E_SB_max_chg |-> get_E_E_SB_max_chg(cap.E_dash_dash_E_SB_max_chg, bal.E_E_srpl, E_dash_dash_E_srpl,
                                               sp.E_dash_dash_E_in_rtd_PVtoSB, sp.alpha_PVtoSB,
                                               sp.beta_PVtoSB, sp.eta_ce_lim_PVtoSB) ]

\* lines 1836-1860: the dispatch of the hour. srp: the result of calculate_surplus
calculate_dispatch(sp, SC, bal, srp) ==
    LET E_E_PV_h == get_E_E_PV_h(bal.E_E_srpl, bal.E_E_PV_max_sup, bal.E_E_dmd_incl, SC)
        E_E_PV_chg == get_E_E_PV_chg(bal.E_E_srpl, srp.E_E_SB_max_chg, SC)
        E_E_PSS_h == get_E_E_PSS_h(bal.E_E_srpl, bal.E_E_dmd_incl, bal.E_E_PSS_max_sup, E_E_PV_h, SC)
        E_E_SB_sup == get_E_E_SB_sup(E_E_PSS_h)
    IN [ SC |-> SC, E_E_PV_h |-> E_E_PV_h, E_E_PV_chg |-> E_E_PV_chg,
         E_dash_dash_E_PV_chg |-> get_E_dash_dash_E_PV_chg(E_E_PV_chg, srp.E_dash_dash_E_srpl, bal.E_E_srpl,
                                             sp.E_dash_dash_E_in_rtd_PVtoSB, sp.alpha_PVtoSB,
                                             sp.beta_PVtoSB, sp.eta_ce_lim_PVtoSB),
         E_E_PV_sell |-> get_E_E_PV_sell(bal.E_E_srpl, E_E_PV_chg, SC),
         E_E_PSS_h |-> E_E_PSS_h,
         E_dash_dash_E_SB_sup |-> IF E_E_SB_sup > 0
                                  THEN get_E_dash_dash_E_SB_sup(E_E_SB_sup, sp.E_dash_dash_E_in_rtd_SBtoDB,
                                                                sp.alpha_SBtoDB, sp.beta_SBtoDB)
                                  ELSE 0 ]

\* lines 1871-1874: the charging and discharging times, either of which may raise
calculate_delta_t(E_dash_dash_E_SB_chg, E_dash_dash_E_SB_dchg) ==
    [ chg |-> get_delta_tau_chg(E_dash_dash_E_SB_chg, E_dash_dash_E_SB_dchg),
      dchg |-> get_delta_tau_dchg(E_dash_dash_E_SB_chg, E_dash_dash_E_SB_dchg) ]

\* lines 1877-1880: the open-circuit voltage of the hour
calculate_V_OC(sp, cap, E_dash_dash_E_SB_chg, E_dash_dash_E_SB_dchg, delta_t_chg, delta_t_dchg) ==
    get_V_OC(cap.SOC_st0,
             get_SOC_hat_st1(cap.SOC_st0, cap.C_fc, delta_t_chg, delta_t_dchg, sp.V_rtd_batt,
                             E_dash_dash_E_SB_chg, E_dash_dash_E_SB_dchg),
             E_dash_dash_E_SB_chg, E_dash_dash_E_SB_dchg,
             cap.T_amb_bmdl, cap.type_batt, sp.V_rtd_batt)

\* lines 1883-1889: the currents and the state of charge at the end of the hour
calculate_SOC_st1(cap, E_dash_dash_E_SB_chg, E_dash_dash_E_SB_dchg, delta_t_chg, delta_t_dchg, V_OC) ==
    get_SOC_st1(cap.SOC_st0, cap.SOC_star_max, cap.SOC_star_min,
                get_I_chg(E_dash_dash_E_SB_chg, E_dash_dash_E_SB_dchg, V_OC, cap.R_intr),
                get_I_dchg(E_dash_dash_E_SB_chg, E_dash_dash_E_SB_dchg, V_OC, cap.R_intr),
                delta_t_chg, delta_t_dchg, cap.C_fc,
                E_dash_dash_E_SB_chg, E_dash_dash_E_SB_dchg)

\* lines 1863-1889, given the charging and discharging times
calculate_update_with(sp, cap, E_dash_dash_E_SB_chg, E_dash_dash_E_SB_dchg, delta_t) ==
    IF delta_t.chg.raised THEN Abort(delta_t.chg.msg)
    ELSE IF delta_t.dchg.raised THEN Abort(delta_t.dchg.msg)
    ELSE [ ok |-> TRUE, msg |-> "",
           SOC_st1 |-> calculate_SOC_st1(cap, E_dash_dash_E_SB_chg, E_dash_dash_E_SB_dchg,
                                         delta_t.chg.v, delta_t.dchg.v,
                                         calculate_V_OC(sp, cap, E_dash_dash_E_SB_chg, E_dash_dash_E_SB_dchg,
                                                        delta_t.chg.v, delta_t.dchg.v)) ]

\* lines 1863-1889: the update of the state of charge
calculate_update(sp, cap, E_dash_dash_E_SB_chg, E_dash_dash_E_SB_dchg) ==
    calculate_update_with(sp, cap, E_dash_dash_E_SB_chg, E_dash_dash_E_SB_dchg,
                          calculate_delta_t(E_dash_dash_E_SB_chg, E_dash_dash_E_SB_dchg))

\* the columns of the hour that calculate keeps: those of the stages, of which the
\* error flag and the message are those of the update
calculate_columns(cap, bal, srp, dsp, upd) ==
    IF ~upd.ok THEN upd
    ELSE upd @@ dsp @@ srp @@ bal
         @@ [ SOC_star_min |-> cap.SOC_star_min, SOC_star_max |-> cap.SOC_star_max,
              SOC_st0 |-> cap.SOC_st0,
              E_dash_dash_E_SB_max_chg |-> cap.E_dash_dash_E_SB_max_chg,
              E_dash_dash_E_SB_max_dchg |-> cap.E_dash_dash_E_SB_max_dchg ]

calculate_after_dispatch(sp, cap, bal, srp, dsp) ==
    calculate_columns(cap, bal, srp, dsp,
                      calculate_update(sp, cap,
                                       get_E_dash_dash_E_SB_chg(dsp.E_dash_dash_E_PV_chg),
                                       get_E_dash_dash_E_SB_dchg(dsp.E_dash_dash_E_SB_sup)))

calculate_after_surplus(sp, SC, cap, bal, srp) ==
    calculate_after_dispatch(sp, cap, bal, srp, calculate_dispatch(sp, SC, bal, srp))

calculate_after_balance(sp, SC, cap, bal) ==
    calculate_after_surplus(sp, SC, cap, bal, calculate_surplus(sp, cap, bal))

\* lines 1762-1889, once the capacities are known
calculate_after_capacity(sp, SC, E_E_dmd_excl, E_dash_dash_E_PV_gen, cap) ==
    IF cap.V_max_chg.raised THEN Abort(cap.V_max_chg.msg)
    ELSE IF cap.V_max_dchg.raised THEN Abort(cap.V_max_dchg.msg)
    ELSE calculate_after_balance(sp, SC, cap, calculate_balance(sp, E_E_dmd_excl, E_dash_dash_E_PV_gen, cap))

\* lines 1703-1889, once the bounds of the state of charge are known
calculate_with_bounds(sp, first, SOC_prev, SC, E_E_dmd_excl, E_dash_dash_E_PV_gen, theta_ex, SOC_star_min, SOC_star_max) ==
    IF SOC_star_min < 0 THEN Abort("SOC_star_min < 0")
    ELSE IF SOC_star_min > SOC_star_max THEN Abort("SOC_star_min > SOC_star_max")
    ELSE calculate_after_capacity(sp, SC, E_E_dmd_excl, E_dash_dash_E_PV_gen,
                                  calculate_capacity(sp, first, SOC_prev, SOC_star_min, SOC_star_max, theta_ex))

\* the body of the loop. sp: the specification; first: dt == 0; SOC_prev: SOC_st1 of
\* the previous iteration; SC, E_E_dmd_excl, E_dash_dash_E_PV_gen, theta_ex: the
\* inputs of the hour
calculate_hour(sp, first, SOC_prev, SC, E_E_dmd_excl, E_dash_dash_E_PV_gen, theta_ex) ==
    calculate_with_bounds(sp, first, SOC_prev, SC, E_E_dmd_excl, E_dash_dash_E_PV_gen, theta_ex,
                          get_SOC_star_min(sp.SOC_star_lower, sp.SOC_star_upper, sp.r_LCP_batt, SC),
                          get_SOC_star_max(sp.SOC_star_upper))


(* ---------------------------------------------------------------------- *)
(* battery.py: class Battery.  self is [sp |-> the spec, SOC_d_t |-> ...]   *)
(* ---------------------------------------------------------------------- *)

Battery_get_T(theta) == theta * 100 + 27316

Battery_get_C_fc_rtd(W_rtd_batt, V_rtd_batt) == (W_rtd_batt * S) \div V_rtd_batt

Battery_get_type_batt(V_star_upper_batt, V_star_lower_batt) ==
    IF V_star_upper_batt * 100 >= 170 * V_star_lower_batt THEN 3
    ELSE IF V_star_upper_batt * 100 >= 145 * V_star_lower_batt THEN 2
    ELSE 1

Battery_f_OCV(x_SOC, x_T_amb, x_type, x_Vrtd) ==
    LET nOCV == 92027
                + (31524 * Pow(x_SOC, 1)) \div S
                + (-61051 * Pow(x_SOC, 2)) \div S
                + (58010 * Pow(x_SOC, 3)) \div S
                + (3 * Pow(x_SOC, 4)) \div S
                + (-8345 * Pow(x_SOC, 5)) \div S
                + (-2122 * Pow(x_SOC, 6)) \div S
    IN (nOCV * x_Vrtd) \div S

\* __init__: the SOC at 0:00 on January 1st, or ValueError
\* Battery.__init__ without the two checks of the limits
Battery_init_Unchecked(sp) ==
    Ret((sp.SOC_star_upper * sp.r_int_dchg_batt
         + sp.SOC_star_lower * (S - sp.r_int_dchg_batt)) \div S)

Battery_init(sp) ==
    IF sp.V_star_lower_batt > sp.V_star_upper_batt
    THEN Raise("V_star_upper_batt < V_star_lower_batt")
    ELSE IF sp.SOC_star_lower > sp.SOC_star_upper
    THEN Raise("SOC_star_lower > SOC_star_upper")
    ELSE Ret((sp.SOC_star_upper * sp.r_int_dchg_batt
              + sp.SOC_star_lower * (S - sp.r_int_dchg_batt)) \div S)

Battery_type_batt(self) == Battery_get_type_batt(self.sp.V_star_upper_batt, self.sp.V_star_lower_batt)

Battery_C_fc_rtd(self) == Battery_get_C_fc_rtd(self.sp.W_rtd_batt, self.sp.V_rtd_batt)

Battery_get_T_amb_bmdl_d_t(self, theta_ex_d_t) == Battery_get_T(theta_ex_d_t)

Battery_get_SOC_star_min_d_t(self, SC_d_t) ==
    IF SC_d_t
    THEN self.sp.SOC_star_lower
         + (self.sp.r_LCP_batt * (self.sp.SOC_star_upper - self.sp.SOC_star_lower)) \div S
    ELSE self.sp.SOC_star_lower

Battery_get_SOC_star_max_d_t(self) == self.sp.SOC_star_upper

Battery_get_C_fc_d_t(self) == Battery_C_fc_rtd(self)

Battery_get_R_intr_d_t(self, T_amb_bmdl_d_t) == 500

Battery_calc_common_parameters(self, theta_ex_d_t, SC_d_t) ==
    LET T_amb_bmdl_d_t == Battery_get_T_amb_bmdl_d_t(self, theta_ex_d_t)
    IN [ T_amb_bmdl_d_t |-> T_amb_bmdl_d_t,
         SOC_star_min_d_t |-> Battery_get_SOC_star_min_d_t(self, SC_d_t),
         SOC_star_max_d_t |-> Battery_get_SOC_star_max_d_t(self),
         C_fc_d_t |-> Battery_get_C_fc_d_t(self),
         R_intr_d_t |-> Battery_get_R_intr_d_t(self, T_amb_bmdl_d_t) ]

\* get_E_dash_dash_E_SB_d_t that nets the two energies instead of raising
Battery_get_E_dash_dash_E_SB_d_t_Net(E_dash_dash_E_PV_chg_d_t, E_dash_dash_E_SB_sup_d_t) ==
    Ret(E_dash_dash_E_PV_chg_d_t - E_dash_dash_E_SB_sup_d_t)

Battery_get_E_dash_dash_E_SB_d_t(E_dash_dash_E_PV_chg_d_t, E_dash_dash_E_SB_sup_d_t) ==
    IF E_dash_dash_E_PV_chg_d_t > 0 /\ E_dash_dash_E_SB_sup_d_t = 0
    THEN Ret(E_dash_dash_E_PV_chg_d_t)
    ELSE IF E_dash_dash_E_PV_chg_d_t = 0 /\ E_dash_dash_E_SB_sup_d_t > 0
    THEN Ret(- E_dash_dash_E_SB_sup_d_t)
    ELSE IF E_dash_dash_E_PV_chg_d_t = 0 /\ E_dash_dash_E_SB_sup_d_t = 0
    THEN Ret(0)
    ELSE Raise("E_dash_dash_E_PV_chg, E_dash_dash_E_SB_sup")

Battery_get_delta_tau_d_t(E_dash_dash_E_SB_d_t) == IF E_dash_dash_E_SB_d_t = 0 THEN 0 ELSE 1

Battery_get_SOC_hat_st1_d_t(self, C_fc_d_t, delta_tau_d_t, E_dash_dash_E_SB_d_t) ==
    IF E_dash_dash_E_SB_d_t = 0
    THEN self.SOC_d_t
    ELSE self.SOC_d_t + dSOC_hat(E_dash_dash_E_SB_d_t, C_fc_d_t, delta_tau_d_t, self.sp.V_rtd_batt)

Battery_get_V_OC_d_t(self, SOC_hat_st1_d_t, T_amb_bmdl_d_t) ==
    LET SOC_hat_st0 == self.SOC_d_t
    IN (Battery_f_OCV(SOC_hat_st0, T_amb_bmdl_d_t, Battery_type_batt(self), self.sp.V_rtd_batt)
        + Battery_f_OCV(SOC_hat_st1_d_t, T_amb_bmdl_d_t, Battery_type_batt(self), self.sp.V_rtd_batt)) \div 2

\* get_I_d_t that gives no current when the discriminant is below 0
Battery_get_I_d_t_ZeroBelowZero(E_dash_dash_E_SB_d_t, V_OC_d_t, R_intr_d_t) ==
    IF V_OC_d_t * V_OC_d_t + FourRE(R_intr_d_t, E_dash_dash_E_SB_d_t) < 0
    THEN 0
    ELSE Over2R(Sqrt(V_OC_d_t * V_OC_d_t + FourRE(R_intr_d_t, E_dash_dash_E_SB_d_t)) - V_OC_d_t, R_intr_d_t)

Battery_get_I_d_t(E_dash_dash_E_SB_d_t, V_OC_d_t, R_intr_d_t) ==
    Over2R(Sqrt(Max(0, V_OC_d_t * V_OC_d_t + FourRE(R_intr_d_t, E_dash_dash_E_SB_d_t))) - V_OC_d_t,
           R_intr_d_t)

Battery_get_SOC_st1_d_t(self, SOC_star_max_d_t, SOC_star_min_d_t, C_fc_d_t, delta_tau_d_t, I_d_t) ==
    LET SOC_st1_ == self.SOC_d_t + IdtOverC(I_d_t, delta_tau_d_t, C_fc_d_t)
    IN IF SOC_st1_ > SOC_star_max_d_t THEN SOC_star_max_d_t
       ELSE IF SOC_st1_ < SOC_star_min_d_t THEN SOC_star_min_d_t
       ELSE SOC_st1_

\* the value assigned to self.SOC_d_t, or the ValueError that ends the call before it
Battery_update_SOC_st1_d_t(self, E_dash_dash_E_PV_chg_d_t, E_dash_dash_E_SB_sup_d_t, theta_ex_d_t, SC_d_t) ==
    LET cp == Battery_calc_common_parameters(self, theta_ex_d_t, SC_d_t)
        E_dash_dash_E_SB_d_t == Battery_get_E_dash_dash_E_SB_d_t(E_dash_dash_E_PV_chg_d_t, E_dash_dash_E_SB_sup_d_t)
        delta_tau_d_t == Battery_get_delta_tau_d_t(E_dash_dash_E_SB_d_t.v)
        SOC_hat_st1_d_t == Battery_get_SOC_hat_st1_d_t(self, cp.C_fc_d_t, delta_tau_d_t, E_dash_dash_E_SB_d_t.v)
        V_OC_d_t == Battery_get_V_OC_d_t(self, SOC_hat_st1_d_t, cp.T_amb_bmdl_d_t)
        I_d_t == Battery_get_I_d_t(E_dash_dash_E_SB_d_t.v, V_OC_d_t, cp.R_intr_d_t)
        SOC_st1_ == Battery_get_SOC_st1_d_t(self, cp.SOC_star_max_d_t, cp.SOC_star_min_d_t,
                                            cp.C_fc_d_t, delta_tau_d_t, I_d_t)
    IN IF E_dash_dash_E_SB_d_t.raised THEN Raise(E_dash_dash_E_SB_d_t.msg) ELSE Ret(SOC_st1_)

Battery_get_delta_tau_max_chg_d_t == 1

Battery_get_delta_tau_max_dchg_d_t == 1

Battery_get_C_oprt_chg_d_t(self, C_fc_d_t, SOC_star_max_d_t) == C_fc_d_t * (SOC_star_max_d_t - self.SOC_d_t)

Battery_get_C_oprt_dchg_d_t(self, C_fc_d_t, SOC_star_min_d_t) == C_fc_d_t * (self.SOC_d_t - SOC_star_min_d_t)

Battery_get_I_max_chg_d_t(C_oprt_chg_d_t, delta_tau_max_chg_d_t) == C_oprt_chg_d_t \div delta_tau_max_chg_d_t

Battery_get_I_max_dchg_d_t(C_oprt_dchg_d_t, delta_tau_max_dchg_d_t) == C_oprt_dchg_d_t \div delta_tau_max_dchg_d_t

Battery_get_V_max_chg_d_t(self, SOC_star_max_d_t, T_amb_bmdl_d_t, I_max_chg_d_t, R_intr_d_t) ==
    LET OCV == (Battery_f_OCV(self.SOC_d_t, T_amb_bmdl_d_t, Battery_type_batt(self), self.sp.V_rtd_batt)
                + Battery_f_OCV(SOC_star_max_d_t, T_amb_bmdl_d_t, Battery_type_batt(self), self.sp.V_rtd_batt)) \div 2
        V_max_chg_d_t == OCV + IRdSOC(I_max_chg_d_t, R_intr_d_t, SOC_star_max_d_t - self.SOC_d_t)
    IN IF V_max_chg_d_t < 0 THEN Raise("V_max_chg < 0") ELSE Ret(V_max_chg_d_t)

\* Battery.get_V_max_dchg_d_t without the check of the sign
Battery_get_V_max_dchg_d_t_Unchecked(self, SOC_star_min_d_t, T_amb_bmdl_d_t, I_max_dchg_d_t, R_intr_d_t) ==
    LET OCV == (Battery_f_OCV(self.SOC_d_t, T_amb_bmdl_d_t, Battery_type_batt(self), self.sp.V_rtd_batt)
                + Battery_f_OCV(SOC_star_min_d_t, T_amb_bmdl_d_t, Battery_type_batt(self), self.sp.V_rtd_batt)) \div 2
    IN Ret(OCV - IRdSOC(I_max_dchg_d_t, R_intr_d_t, self.SOC_d_t - SOC_star_min_d_t))

Battery_get_V_max_dchg_d_t(self, SOC_star_min_d_t, T_amb_bmdl_d_t, I_max_dchg_d_t, R_intr_d_t) ==
    LET OCV == (Battery_f_OCV(self.SOC_d_t, T_amb_bmdl_d_t, Battery_type_batt(self), self.sp.V_rtd_batt)
                + Battery_f_OCV(SOC_star_min_d_t, T_amb_bmdl_d_t, Battery_type_batt(self), self.sp.V_rtd_batt)) \div 2
        V_max_dchg_d_t == OCV - IRdSOC(I_max_dchg_d_t, R_intr_d_t, self.SOC_d_t - SOC_star_min_d_t)
    IN IF V_max_dchg_d_t < 0 THEN Raise("V_max_dchg < 0") ELSE Ret(V_max_dchg_d_t)

Battery_get_E_dash_dash_E_SB_max_chg_d_t(I_max_chg_d_t, V_max_chg_d_t, delta_tau_max_chg_d_t) ==
    ((I_max_chg_d_t \div S) * V_max_chg_d_t * delta_tau_max_chg_d_t) \div 100000

Battery_get_E_dash_dash_E_SB_max_dchg_d_t(I_max_dchg_d_t, V_max_dchg_d_t, delta_tau_max_dchg_d_t) ==
    ((I_max_dchg_d_t \div S) * V_max_dchg_d_t * delta_tau_max_dchg_d_t) \div 100000

\* the pair (max chargeable, max dischargeable), or ValueError
Battery_calc_E_dash_dash_E_SB_max_d_t(self, theta_ex_d_t, SC_d_t) ==
    LET cp == Battery_calc_common_parameters(self, theta_ex_d_t, SC_d_t)
        delta_tau_max_chg_d_t == Battery_get_delta_tau_max_chg_d_t
        C_oprt_chg_d_t == Battery_get_C_oprt_chg_d_t(self, cp.C_fc_d_t, cp.SOC_star_max_d_t)
        I_max_chg_d_t == Battery_get_I_max_chg_d_t(C_oprt_chg_d_t, delta_tau_max_chg_d_t)
        V_max_chg_d_t == Battery_get_V_max_chg_d_t(self, cp.SOC_star_max_d_t, cp.T_amb_bmdl_d_t,
                                                   I_max_chg_d_t, cp.R_intr_d_t)
        E_max_chg == Battery_get_E_dash_dash_E_SB_max_chg_d_t(I_max_chg_d_t, V_max_chg_d_t.v, delta_tau_max_chg_d_t)
        delta_tau_max_dchg_d_t == Battery_get_delta_tau_max_dchg_d_t
        C_oprt_dchg_d_t == Battery_get_C_oprt_dchg_d_t(self, cp.C_fc_d_t, cp.SOC_star_min_d_t)
        I_max_dchg_d_t == Battery_get_I_max_dchg_d_t(C_oprt_dchg_d_t, delta_tau_max_dchg_d_t)
        V_max_dchg_d_t == Battery_get_V_max_dchg_d_t(self, cp.SOC_star_min_d_t, cp.T_amb_bmdl_d_t,
                                                     I_max_dchg_d_t, cp.R_intr_d_t)
        E_max_dchg == Battery_get_E_dash_dash_E_SB_max_dchg_d_t(I_max_dchg_d_t, V_max_dchg_d_t.v, delta_tau_max_dchg_d_t)
    IN IF V_max_chg_d_t.raised THEN Raise(V_max_chg_d_t.msg)
       ELSE IF V_max_dchg_d_t.raised THEN Raise(V_max_dchg_d_t.msg)
       ELSE Ret(<<E_max_chg, E_max_dchg>>)

(* ---------------------------------------------------------------------- *)
(* power_conditioner.py: the static converter functions                     *)
(* ---------------------------------------------------------------------- *)

\* PowerConditioner.get_tau_oprt_PSS_d_t
PowerConditioner_get_tau_oprt_PSS_d_t(E_dash_dash_E_PV_gen_d_t, E_E_dmd_excl_d_t, E_dash_dash_E_SB_max_dchg_d_t) ==
    IF E_dash_dash_E_PV_gen_d_t > 0
    THEN 1
    ELSE IF E_E_dmd_excl_d_t > 0 /\ E_dash_dash_E_SB_max_dchg_d_t > 0 THEN 1 ELSE 0

PowerConditioner_f_E_in(x_E_out, x_E_in_rtd, x_a, x_b) ==
    LET _E_in == Min(Max((-x_a * x_E_in_rtd + x_E_out * S) \div x_b, x_E_in_rtd \div 4),
                     x_E_in_rtd)
    IN IF _E_in * 4 < x_E_in_rtd
       THEN (x_E_out * 100) \div 96
       ELSE _E_in

PowerConditioner_f_eta_ec(x_E_in, x_E_in_rtd, x_a, x_b, x_eta_ce_lim) ==
    IF x_E_in <= 0
    THEN x_eta_ce_lim
    ELSE Max((x_a * x_E_in_rtd) \div Min(x_E_in, x_E_in_rtd) + x_b, x_eta_ce_lim)

\* PowerConditioner.get_E_E_PV_max_sup_d_t: the PV energy deliverable at the
\* distribution board; self holds the converter fields of the specification
PowerConditioner_get_E_E_PV_max_sup_d_t(self, E_dash_dash_E_PV_max_sup_d_t) ==
    IF E_dash_dash_E_PV_max_sup_d_t > 0
    THEN (PowerConditioner_f_eta_ec(E_dash_dash_E_PV_max_sup_d_t, self.E_dash_dash_E_in_rtd_PVtoDB,
                                    self.alpha_PVtoDB, self.beta_PVtoDB, self.eta_ce_lim_PVtoDB)
          * Min(E_dash_dash_E_PV_max_sup_d_t, self.E_dash_dash_E_in_rtd_PVtoDB)) \div S
    ELSE 0

\* PowerConditioner.get_E_E_SB_max_sup_d_t: the same for the battery unit
PowerConditioner_get_E_E_SB_max_sup_d_t(self, E_dash_dash_E_SB_max_sup_d_t) ==
    IF E_dash_dash_E_SB_max_sup_d_t > 0
    THEN (PowerConditioner_f_eta_ec(E_dash_dash_E_SB_max_sup_d_t, self.E_dash_dash_E_in_rtd_SBtoDB,
                                    self.alpha_SBtoDB, self.beta_SBtoDB, self.eta_ce_lim_SBtoDB)
          * Min(E_dash_dash_E_SB_max_sup_d_t, self.E_dash_dash_E_in_rtd_SBtoDB)) \div S
    ELSE 0

(* ---------------------------------------------------------------------- *)
(* Inputs                                                                   *)
(* ---------------------------------------------------------------------- *)

\* hourly demand without the auxiliary load, Wh
Demands == {0, 1000, 4000}

\* hourly PV generation, Wh (7000 exceeds every rated converter input)
Gens == {0, 2000, 7000}

\* outdoor temperature, degree Celsius
Thetas == {-5, 30}

\* charge and discharge energies handed to Battery.update_SOC_st1_d_t, Wh
ChgArgs == {0, 600, 3000}

SupArgs == {0, 3000, 15000}

\* arguments of the converter functions: energies in Wh, rated inputs
\* (multiples of 4, so that a quarter of them is exact), slopes, intercepts, limits;
\* the energies include a negative one, and the limits one (0.95) that lies above
\* the regression line at part load
ConvEnergies == {-100, 0, 4, 300, 1000, 1500, 3000, 5000, 7000}

ConvRated == {4000, 6000}

ConvSlopes == {-360, -126, 0}

ConvIntercepts == {9600, 9750}

ConvLimits == {5000, 6000, 9500}

\* maximum currents passed to get_V_max_chg and get_V_max_dchg, 1e-7 A:
\* -200 A, 0 and 200 A
MaxCurrents == {-2000000000, 0, 2000000000}

\* upper and lower voltage limits passed to get_type_batt, 0.1 V: the reference
\* pair, and pairs at and next to the ratios 1.7 and 1.45
VoltageLimits == { <<1968, 1296>>, <<2500, 1000>>, <<1700, 1000>>, <<1699, 1000>>,
                   <<1450, 1000>>, <<1449, 1000>>, <<1000, 1000>> }

Entries == {"calculate", "Battery", "functions"}

(* ---------------------------------------------------------------------- *)
(* State machine                                                            *)
(* ---------------------------------------------------------------------- *)

NoRec == [ok |-> FALSE, msg |-> ""]

NoCall == [op |-> "none", n |-> 0]

\* no function has been called yet; the functions keep no state between calls, so
\* a run of the entry "functions" is one call
NoConv == [fn |-> "none"]

\* BatteryLogger.__init__: the arrays of zeros, one value per hour; bl stands for
\* bl.E_E_aux_PCS_d_t, the last of the 17 arrays calculate writes, all in the same way
BatteryLogger_init == [t \in 0..(NumHours - 1) |-> 0]

Init ==
    /\ entry \in Entries
    /\ spec \in Specs
    /\ pc = "start"
    /\ dt = 0
    /\ SOC_st1 = 0         \* unbound until the first iteration assigns it
    /\ rec = NoRec
    /\ err = ""
    /\ SOC_d_t = 0         \* no Battery object yet
    /\ call = NoCall
    /\ conv = NoConv
    /\ bl = BatteryLogger_init

\* calculate, up to the loop: the two checks of the bounds
calculate_start ==
    /\ entry = "calculate"
    /\ pc = "start"
    /\ IF spec.V_star_lower_batt > spec.V_star_upper_batt
       THEN pc' = "failed" /\ err' = "V_star_upper_batt < V_star_lower_batt"
       ELSE IF spec.SOC_star_lower > spec.SOC_star_upper
       THEN pc' = "failed" /\ err' = "SOC_star_lower > SOC_star_upper"
       ELSE pc' = "loop" /\ err' = err
    /\ UNCHANGED <<entry, spec, dt, SOC_st1, rec, SOC_d_t, call, conv, bl>>

\* an iteration whose battery supply keeps the value of the previous iteration when
\* the hour has no discharge, as a loop without the else branch of its assignment would
calculate_loop_KeepsBatterySupply ==
    /\ entry = "calculate"
    /\ pc = "loop"
    /\ dt < NumHours
    /\ \E SC \in BOOLEAN, E_E_dmd_excl \in Demands, E_dash_dash_E_PV_gen \in Gens, theta_ex \in Thetas :
          \E r \in {calculate_hour(spec, dt = 0, SOC_st1, SC, E_E_dmd_excl, E_dash_dash_E_PV_gen, theta_ex)} :
             IF r.ok
             THEN /\ rec' = IF rec.ok /\ r.E_E_PSS_h = 0
                            THEN [r EXCEPT !.E_dash_dash_E_SB_sup = rec.E_dash_dash_E_SB_sup]
                            ELSE r
                  /\ bl' = [bl EXCEPT ![dt] = r.E_E_aux_PCS]
                  /\ SOC_st1' = r.SOC_st1
                  /\ dt' = dt + 1
                  /\ UNCHANGED <<pc, err>>
             ELSE /\ pc' = "failed"
                  /\ err' = r.msg
                  /\ UNCHANGED <<rec, SOC_st1, dt, bl>>
    /\ UNCHANGED <<entry, spec, SOC_d_t, call, conv>>

\* one iteration of the loop of calculate, with the writes to the logger
calculate_loop ==
    /\ entry = "calculate"
    /\ pc = "loop"
    /\ dt < NumHours
    /\ \E SC \in BOOLEAN, E_E_dmd_excl \in Demands, E_dash_dash_E_PV_gen \in Gens, theta_ex \in Thetas :
          \E r \in {calculate_hour(spec, dt = 0, SOC_st1, SC, E_E_dmd_excl, E_dash_dash_E_PV_gen, theta_ex)} :
             IF r.ok
             THEN /\ rec' = r
                  /\ bl' = [bl EXCEPT ![dt] = r.E_E_aux_PCS]
                  /\ SOC_st1' = r.SOC_st1
                  /\ dt' = dt + 1
                  /\ UNCHANGED <<pc, err>>
             ELSE /\ pc' = "failed"
                  /\ err' = r.msg
                  /\ UNCHANGED <<rec, SOC_st1, dt, bl>>
    /\ UNCHANGED <<entry, spec, SOC_d_t, call, conv>>

\* the loop is exhausted: the output table is built and returned
calculate_return ==
    /\ entry = "calculate"
    /\ pc = "loop"
    /\ dt = NumHours
    /\ pc' = "done"
    /\ UNCHANGED <<entry, spec, dt, SOC_st1, rec, err, SOC_d_t, call, conv, bl>>

\* Battery(spec)
Battery_new ==
    /\ entry = "Battery"
    /\ pc = "start"
    /\ \E r \in {Battery_init(spec)} :
          IF r.raised
          THEN pc' = "failed" /\ err' = r.msg /\ SOC_d_t' = SOC_d_t
          ELSE pc' = "alive" /\ err' = err /\ SOC_d_t' = r.v
    /\ UNCHANGED <<entry, spec, dt, SOC_st1, rec, call, conv, bl>>

Self == [sp |-> spec, SOC_d_t |-> SOC_d_t]

\* battery.update_SOC_st1_d_t(...): a ValueError leaves the object as it was
Battery_update ==
    /\ entry = "Battery"
    /\ pc = "alive"
    /\ call.n < MaxCalls
    /\ \E chg \in ChgArgs, sup \in SupArgs, theta_ex \in Thetas, SC \in BOOLEAN :
          \E r \in {Battery_update_SOC_st1_d_t(Self, chg, sup, theta_ex, SC)},
             cp \in {Battery_calc_common_parameters(Self, theta_ex, SC)} :
             /\ SOC_d_t' = IF r.raised THEN SOC_d_t ELSE r.v
             /\ err' = r.msg
             /\ call' = [ op |-> "update", n |-> call.n + 1, chg |-> chg, sup |-> sup, SC |-> SC,
                          SOC_before |-> SOC_d_t, raised |-> r.raised,
                          SOC_star_min |-> cp.SOC_star_min_d_t, SOC_star_max |-> cp.SOC_star_max_d_t,
                          max_chg |-> 0, max_dchg |-> 0 ]
    /\ UNCHANGED <<entry, spec, pc, dt, SOC_st1, rec, conv, bl>>

\* battery.calc_E_dash_dash_E_SB_max_d_t(...) that stores the SOC it computes with,
\* brought within the stop bounds of the hour
Battery_calc_max_StoresSOC ==
    /\ entry = "Battery"
    /\ pc = "alive"
    /\ call.n < MaxCalls
    /\ \E theta_ex \in Thetas, SC \in BOOLEAN :
          \E r \in {Battery_calc_E_dash_dash_E_SB_max_d_t(Self, theta_ex, SC)},
             cp \in {Battery_calc_common_parameters(Self, theta_ex, SC)} :
             /\ err' = r.msg
             /\ SOC_d_t' = Max(SOC_d_t, cp.SOC_star_min_d_t)
             /\ call' = [ op |-> "max", n |-> call.n + 1, chg |-> 0, sup |-> 0, SC |-> SC,
                          SOC_before |-> SOC_d_t, raised |-> r.raised,
                          SOC_star_min |-> cp.SOC_star_min_d_t, SOC_star_max |-> cp.SOC_star_max_d_t,
                          max_chg |-> IF r.raised THEN 0 ELSE r.v[1],
                          max_dchg |-> IF r.raised THEN 0 ELSE r.v[2] ]
    /\ UNCHANGED <<entry, spec, pc, dt, SOC_st1, rec, conv, bl>>

\* battery.calc_E_dash_dash_E_SB_max_d_t(...)
Battery_calc_max ==
    /\ entry = "Battery"
    /\ pc = "alive"
    /\ call.n < MaxCalls
    /\ \E theta_ex \in Thetas, SC \in BOOLEAN :
          \E r \in {Battery_calc_E_dash_dash_E_SB_max_d_t(Self, theta_ex, SC)},
             cp \in {Battery_calc_common_parameters(Self, theta_ex, SC)} :
             /\ err' = r.msg
             /\ call' = [ op |-> "max", n |-> call.n + 1, chg |-> 0, sup |-> 0, SC |-> SC,
                          SOC_before |-> SOC_d_t, raised |-> r.raised,
                          SOC_star_min |-> cp.SOC_star_min_d_t, SOC_star_max |-> cp.SOC_star_max_d_t,
                          max_chg |-> IF r.raised THEN 0 ELSE r.v[1],
                          max_dchg |-> IF r.raised THEN 0 ELSE r.v[2] ]
    /\ UNCHANGED <<entry, spec, pc, dt, SOC_st1, rec, SOC_d_t, conv, bl>>

\* f_E_in(x_E_out, x_E_in_rtd, x_a, x_b), in pvbatt and in PowerConditioner
call_f_E_in ==
    /\ entry = "functions"
    /\ conv = NoConv
    /\ \E x_E_out \in ConvEnergies, x_E_in_rtd \in ConvRated, x_a \in ConvSlopes, x_b \in ConvIntercepts :
          conv' = [ fn |-> "f_E_in", x |-> x_E_out, rtd |-> x_E_in_rtd, a |-> x_a, b |-> x_b,
                    lim |-> 0, eta |-> 0,
                    out |-> f_E_in(x_E_out, x_E_in_rtd, x_a, x_b),
                    out_PC |-> PowerConditioner_f_E_in(x_E_out, x_E_in_rtd, x_a, x_b) ]
    /\ UNCHANGED <<entry, spec, pc, dt, SOC_st1, rec, err, SOC_d_t, call, bl>>

\* the forward conversions of the three paths, f_E_out_PVtoDB, f_E_dash_dash_out_PVtoSB
\* and f_E_out_SBtoDB, each followed by the inverse conversion of its path, and the
\* two maximum suppliable energies, called with any energy and any converter values
call_f_E_out ==
    /\ entry = "functions"
    /\ conv = NoConv
    /\ \E x_E_in \in ConvEnergies, x_E_in_rtd \in ConvRated, x_a \in ConvSlopes,
          x_b \in ConvIntercepts, x_lim \in ConvLimits :
          \E E_out_PVtoDB \in {f_E_out_PVtoDB(x_E_in, x_E_in_rtd, x_a, x_b, x_lim)},
             E_out_PVtoSB \in {f_E_dash_dash_out_PVtoSB(x_E_in, x_E_in_rtd, x_a, x_b, x_lim)},
             E_out_SBtoDB \in {f_E_out_SBtoDB(x_E_in, x_E_in_rtd, x_a, x_b, x_lim)},
             pcs \in {[ E_dash_dash_E_in_rtd_PVtoDB |-> x_E_in_rtd, alpha_PVtoDB |-> x_a,
                        beta_PVtoDB |-> x_b, eta_ce_lim_PVtoDB |-> x_lim,
                        E_dash_dash_E_in_rtd_SBtoDB |-> x_E_in_rtd, alpha_SBtoDB |-> x_a,
                        beta_SBtoDB |-> x_b, eta_ce_lim_SBtoDB |-> x_lim ]} :
             conv' = [ fn |-> "f_E_out", x |-> x_E_in, rtd |-> x_E_in_rtd, a |-> x_a, b |-> x_b,
                       lim |-> x_lim, eta |-> f_eta_ec(x_E_in, x_E_in_rtd, x_a, x_b, x_lim),
                       out |-> E_out_PVtoDB,
                       out_PVtoSB |-> E_out_PVtoSB,
                       out_SBtoDB |-> E_out_SBtoDB,
                       out_PC |-> (PowerConditioner_f_eta_ec(x_E_in, x_E_in_rtd, x_a, x_b, x_lim)
                                   * Min(x_E_in, x_E_in_rtd)) \div S,
                       back_PVtoDB |-> f_E_dash_dash_in_PVtoDB(E_out_PVtoDB, x_E_in_rtd, x_a, x_b),
                       back_PVtoSB |-> f_E_dash_dash_in_PVtoSB(E_out_PVtoSB, x_E_in_rtd, x_a, x_b),
                       back_SBtoDB |-> f_E_dash_dash_in_SBtoDB(E_out_SBtoDB, x_E_in_rtd, x_a, x_b),
                       PV_max_sup |-> get_E_E_PV_max_sup(x_E_in, x_E_in_rtd, x_a, x_b, x_lim),
                       SB_max_sup |-> get_E_E_SB_max_sup(x_E_in, x_E_in_rtd, x_a, x_b, x_lim),
                       PV_max_sup_PC |-> PowerConditioner_get_E_E_PV_max_sup_d_t(pcs, x_E_in),
                       SB_max_sup_PC |-> PowerConditioner_get_E_E_SB_max_sup_d_t(pcs, x_E_in) ]
    /\ UNCHANGED <<entry, spec, pc, dt, SOC_st1, rec, err, SOC_d_t, call, bl>>

\* get_V_max_chg and get_V_max_dchg of pvbatt and of a Battery object, called with
\* any maximum current at the lower SOC limit, the initial SOC and the upper limit
call_get_V_max ==
    /\ entry = "functions"
    /\ conv = NoConv
    /\ spec.V_star_lower_batt <= spec.V_star_upper_batt
    /\ spec.SOC_star_lower <= spec.SOC_star_upper
    /\ \E I_max \in MaxCurrents, theta_ex \in Thetas :
          \E self \in {[sp |-> spec, SOC_d_t |-> x_SOC] :
                         x_SOC \in {spec.SOC_star_lower, Battery_init(spec).v, spec.SOC_star_upper}} :
             conv' = [ fn |-> "get_V_max", I_max |-> I_max, SOC_st0 |-> self.SOC_d_t,
                       V_max_chg |-> get_V_max_chg(self.SOC_d_t, spec.SOC_star_upper, get_T(theta_ex),
                                                   get_type_batt(spec.V_star_upper_batt, spec.V_star_lower_batt),
                                                   spec.V_rtd_batt, I_max, 500),
                       V_max_dchg |-> get_V_max_dchg(self.SOC_d_t, spec.SOC_star_lower, get_T(theta_ex),
                                                     get_type_batt(spec.V_star_upper_batt, spec.V_star_lower_batt),
                                                     spec.V_rtd_batt, I_max, 500),
                       V_max_chg_d_t |-> Battery_get_V_max_chg_d_t(self, spec.SOC_star_upper,
                                             Battery_get_T_amb_bmdl_d_t(self, theta_ex), I_max, 500),
                       V_max_dchg_d_t |-> Battery_get_V_max_dchg_d_t(self, spec.SOC_star_lower,
                                             Battery_get_T_amb_bmdl_d_t(self, theta_ex), I_max, 500) ]
    /\ UNCHANGED <<entry, spec, pc, dt, SOC_st1, rec, err, SOC_d_t, call, bl>>

\* get_type_batt of pvbatt and of Battery, called with any pair of voltage limits
call_get_type_batt ==
    /\ entry = "functions"
    /\ conv = NoConv
    /\ \E V \in VoltageLimits :
          conv' = [ fn |-> "get_type_batt", V_star_upper_batt |-> V[1], V_star_lower_batt |-> V[2],
                    type_batt |-> get_type_batt(V[1], V[2]),
                    type_batt_B |-> Battery_get_type_batt(V[1], V[2]) ]
    /\ UNCHANGED <<entry, spec, pc, dt, SOC_st1, rec, err, SOC_d_t, call, bl>>

\* get_delta_tau_chg(...) and get_delta_tau_dchg(...), called with any two energies
call_get_delta_tau ==
    /\ entry = "functions"
    /\ conv = NoConv
    /\ \E chg \in ChgArgs, dchg \in SupArgs :
          conv' = [ fn |-> "get_delta_tau", chg |-> chg, dchg |-> dchg,
                    delta_tau_chg |-> get_delta_tau_chg(chg, dchg),
                    delta_tau_dchg |-> get_delta_tau_dchg(chg, dchg) ]
    /\ UNCHANGED <<entry, spec, pc, dt, SOC_st1, rec, err, SOC_d_t, call, bl>>

Next ==
    \/ calculate_start
    \/ calculate_loop
    \/ calculate_return
    \/ Battery_new
    \/ Battery_update
    \/ Battery_calc_max
    \/ call_f_E_in
    \/ call_f_E_out
    \/ call_get_V_max
    \/ call_get_type_batt
    \/ call_get_delta_tau

Spec == Init /\ [][Next]_vars

(* ---------------------------------------------------------------------- *)
(* Properties                                                               *)
(* ---------------------------------------------------------------------- *)

\* an hour of calculate has completed and rec holds its columns
HourDone == entry = "calculate" /\ rec.ok

\* the last call on the Battery object was an update that returned
UpdateReturned == entry = "Battery" /\ call.op = "update" /\ ~call.raised

\* C1: after the update of an hour the state of charge lies between the
\* discharge-stop bound computed for that hour's grid flag and the charge-stop
\* bound, in calculate as in Battery.update_SOC_st1_d_t.
\* Violated by calculate: get_SOC_st1 stops a discharge at the lower bound, but an
\* hour that charges or does nothing starts from the previous hour's state of
\* charge, which a lower bound raised by the grid coming back leaves below it.
C1_SOCWithinStopBounds ==
    /\ HourDone => /\ rec.SOC_star_min <= rec.SOC_st1
                   /\ rec.SOC_st1 <= rec.SOC_star_max
    /\ UpdateReturned => /\ call.SOC_star_min <= SOC_d_t
                         /\ SOC_d_t <= call.SOC_star_max

C3_SimultaneousChargeDischargeRaises ==
    /\ (entry = "Battery" /\ call.op = "update")
          => /\ call.raised <=> (call.chg > 0 /\ call.sup > 0)
             /\ call.raised => SOC_d_t = call.SOC_before
    /\ (entry = "functions" /\ conv.fn = "get_delta_tau")
          => /\ conv.delta_tau_chg.raised <=> (conv.chg > 0 /\ conv.dchg > 0)
             /\ conv.delta_tau_dchg.raised <=> (conv.chg > 0 /\ conv.dchg > 0)

\* C3 witness: an update raised on an object whose state of charge had moved
C3_Witness_RaisedAfterChange ==
    /\ entry = "Battery" /\ call.op = "update" /\ call.raised
    /\ call.chg > 0 /\ call.sup > 0
    /\ SOC_d_t # Battery_init(spec).v
    /\ SOC_d_t = call.SOC_before

\* C4: in an hour without PV generation and without demand the system does not
\* operate, draws the two standby powers, has no surplus, no PV self-consumption,
\* export or charge, no battery discharge on either side, and the state of charge
\* stays where it was.
\* Violated: the standby draw is itself a demand, which the battery serves, and
\* f_E_in turns it into a quarter of the rated input on the battery side.
C4_IdleHourChangesNothing ==
    (HourDone /\ rec.E_dash_dash_E_PV_gen = 0 /\ rec.E_E_dmd_excl = 0)
       => /\ rec.tau_oprt_PSS = 0
          /\ rec.E_E_aux_PSS = spec.P_aux_PCS_stby + P_aux_others_stby
          /\ rec.E_E_srpl = 0
          /\ rec.E_E_PV_h = 0
          /\ rec.E_E_PV_sell = 0
          /\ rec.E_E_PV_chg = 0
          /\ rec.E_dash_dash_E_PV_chg = 0
          /\ rec.E_E_PSS_h = 0
          /\ rec.E_dash_dash_E_SB_sup = 0
          /\ rec.SOC_st1 = rec.SOC_st0

\* C5: with the grid available and the PV supply above the demand including the
\* auxiliaries, export, charge and self-consumption add up to the PV supply (all on
\* the distribution-board side); hour by hour, hence over any run of such hours.
C5_PVSplitAddsUp ==
    (HourDone /\ rec.SC /\ rec.E_E_PV_max_sup > rec.E_E_dmd_incl)
       => rec.E_E_PV_sell + rec.E_E_PV_chg + rec.E_E_PV_h = rec.E_E_PV_max_sup

\* C5 witness: such an hour in which some PV is exported and some is charged
C5_Witness_ExportAndCharge ==
    /\ HourDone /\ rec.SC /\ rec.E_E_PV_max_sup > rec.E_E_dmd_incl
    /\ rec.E_E_PV_sell > 0 /\ rec.E_E_PV_chg > 0 /\ rec.E_E_PV_h > 0

\* C6: with the reference configuration calculate never ends in an error, and it
\* returns after exactly as many iterations as there are hours.  (An iteration
\* either advances dt or ends in an error, so a run that never fails returns.)
C6_ReferenceRunCompletes ==
    (entry = "calculate" /\ spec = RefSpec)
       => /\ pc # "failed"
          /\ err = ""
          /\ dt <= NumHours
          /\ pc = "done" => dt = NumHours
          /\ pc = "start" => dt = 0

\* C6 witness: a reference run that returned, having discharged to the lower bound
\* and then charged
C6_Witness_ReferenceRunDone ==
    /\ entry = "calculate" /\ spec = RefSpec /\ pc = "done" /\ dt = NumHours
    /\ rec.ok /\ rec.E_dash_dash_E_PV_chg > 0
    /\ rec.SOC_st0 = rec.SOC_star_min

\* C7: with the reference configuration the state of charge lies between
\* SOC_star_lower and SOC_star_upper at the start and at the end of every hour of
\* calculate, and in every state of a Battery object.
C7_ReferenceSOCWithinLimits ==
    /\ (HourDone /\ spec = RefSpec)
          => /\ spec.SOC_star_lower <= rec.SOC_st0 /\ rec.SOC_st0 <= spec.SOC_star_upper
             /\ spec.SOC_star_lower <= rec.SOC_st1 /\ rec.SOC_st1 <= spec.SOC_star_upper
    /\ (entry = "Battery" /\ pc = "alive" /\ spec = RefSpec)
          => spec.SOC_star_lower <= SOC_d_t /\ SOC_d_t <= spec.SOC_star_upper

\* C7 witness: a reference run whose discharge was stopped at SOC_star_lower
C7_Witness_AtLowerLimit ==
    /\ HourDone /\ spec = RefSpec
    /\ rec.E_dash_dash_E_SB_sup > 0
    /\ rec.SOC_st0 > spec.SOC_star_lower
    /\ rec.SOC_st1 = spec.SOC_star_lower

\* C8: without surplus, whatever the grid flag, the PV self-consumption is the PV
\* supply, nothing is exported or charged, and the battery serves the smaller of
\* the demand including the auxiliaries and the total supply, less the PV part.
C8_NoSurplusRow ==
    (HourDone /\ rec.E_E_srpl <= 0)
       => /\ rec.E_E_PV_h = rec.E_E_PV_max_sup
          /\ rec.E_E_PV_sell = 0
          /\ rec.E_E_PV_chg = 0
          /\ rec.E_E_PSS_h = Min(rec.E_E_dmd_incl, rec.E_E_PSS_max_sup) - rec.E_E_PV_h

\* C8 witness: an hour without surplus in which PV and battery together fall
\* short of the demand
C8_Witness_SupplyShort ==
    /\ HourDone /\ rec.E_E_srpl <= 0
    /\ rec.E_E_PV_h > 0 /\ rec.E_E_PSS_h > 0
    /\ rec.E_E_PSS_max_sup < rec.E_E_dmd_incl

\* C9: with a surplus the PV self-consumption is the demand including the
\* auxiliaries, the charge is the smaller of the surplus and the most the battery
\* takes (distribution-board side), the battery serves nothing, and the export is
\* the surplus less the charge with the grid and 0 without it.
C9_SurplusRows ==
    (HourDone /\ rec.E_E_srpl > 0)
       => /\ rec.E_E_PV_h = rec.E_E_dmd_incl
          /\ rec.E_E_PV_chg = Min(rec.E_E_srpl, rec.E_E_SB_max_chg)
          /\ rec.E_E_PSS_h = 0
          /\ rec.E_E_PV_sell = IF rec.SC THEN rec.E_E_srpl - rec.E_E_PV_chg ELSE 0

\* C9 witness: a surplus the battery cannot take whole, without the grid
C9_Witness_SurplusCurtailed ==
    /\ HourDone /\ rec.E_E_srpl > 0 /\ ~rec.SC
    /\ rec.E_E_SB_max_chg < rec.E_E_srpl
    /\ rec.E_E_PV_chg = rec.E_E_SB_max_chg
    /\ rec.E_E_PV_sell = 0

\* C10: f_E_in solves (output - slope * rated) / intercept, clamps it to
\* [rated / 4, rated], and returns output / 0.96 if the clamped value is below a
\* quarter of the rated input, the clamped value otherwise; in pvbatt as in
\* PowerConditioner.  (The clamp leaves nothing below the quarter.)
C10_f_E_in_ClampedOrFallback ==
    (entry = "functions" /\ conv.fn = "f_E_in")
       => \E solved \in {(-conv.a * conv.rtd + conv.x * S) \div conv.b} :
          \E clamped \in {Min(Max(solved, conv.rtd \div 4), conv.rtd)} :
             /\ clamped * 4 < conv.rtd => /\ conv.out = (conv.x * 100) \div 96
                                          /\ conv.out_PC = (conv.x * 100) \div 96
             /\ clamped * 4 >= conv.rtd => /\ conv.out = clamped
                                           /\ conv.out_PC = clamped

\* C10 witness: a call whose solution lies below a quarter of the rated input
C10_Witness_SolutionBelowQuarter ==
    /\ entry = "functions" /\ conv.fn = "f_E_in"
    /\ ((-conv.a * conv.rtd + conv.x * S) \div conv.b) * 4 < conv.rtd
    /\ conv.out * 4 = conv.rtd
    /\ conv.out_PC * 4 = conv.rtd

(* ---------------------------------------------------------------------- *)
(* C11                                                                      *)
(* ---------------------------------------------------------------------- *)

\* C11: on every converter path, with any converter values, converting an input
\* between a quarter of the rated input and the rated input and then inverting the
\* result gives the input back, up to a rounding of 2 Wh.
C11_RoundTripGivesInputBack ==
    LET Near(a, b) == a - b <= 2 /\ b - a <= 2
    IN (conv.fn = "f_E_out" /\ conv.rtd <= 4 * conv.x /\ conv.x <= conv.rtd)
           => /\ Near(conv.back_PVtoDB, conv.x)
              /\ Near(conv.back_PVtoSB, conv.x)
              /\ Near(conv.back_SBtoDB, conv.x)

(* ---------------------------------------------------------------------- *)
(* C12                                                                      *)
(* ---------------------------------------------------------------------- *)

\* C12: the converted energy is efficiency * min(input, rated input), where the
\* efficiency is the limit for an input <= 0 and otherwise the larger of
\* slope * rated / min(input, rated) + intercept and the limit; so the efficiency
\* is never below the limit, an input at or above the rated input converts to
\* what the rated input converts to, and the two maximum suppliable energies are
\* 0 for an input <= 0.
C12_ConvertIsEfficiencyTimesClampedInput ==
    conv.fn = "f_E_out" =>
        LET efficiency == IF conv.x <= 0
                          THEN conv.lim
                          ELSE Max((conv.a * conv.rtd) \div Min(conv.x, conv.rtd) + conv.b,
                                   conv.lim)
            output == (efficiency * Min(conv.x, conv.rtd)) \div S
        IN /\ conv.eta = efficiency
           /\ conv.eta >= conv.lim
           /\ conv.out = output /\ conv.out_PVtoSB = output /\ conv.out_SBtoDB = output
           /\ conv.out_PC = output
           /\ conv.x >= conv.rtd
                 => /\ conv.out = (Max(conv.a + conv.b, conv.lim) * conv.rtd) \div S
                    /\ conv.out = f_E_out_PVtoDB(conv.rtd, conv.rtd, conv.a, conv.b, conv.lim)
                    /\ conv.PV_max_sup = conv.out /\ conv.PV_max_sup_PC = conv.out
                    /\ conv.SB_max_sup = conv.out /\ conv.SB_max_sup_PC = conv.out
           /\ conv.x <= 0
                 => /\ conv.PV_max_sup = 0 /\ conv.SB_max_sup = 0
                    /\ conv.PV_max_sup_PC = 0 /\ conv.SB_max_sup_PC = 0

\* an input above the rated input whose regression efficiency lies below the limit
C12_Witness_AboveRatedAtLimit ==
    /\ conv.fn = "f_E_out"
    /\ conv.x > conv.rtd
    /\ conv.a + conv.b < conv.lim
    /\ conv.eta = conv.lim
    /\ conv.out = (conv.lim * conv.rtd) \div S
    /\ conv.out > 0

(* ---------------------------------------------------------------------- *)
(* C13                                                                      *)
(* ---------------------------------------------------------------------- *)

\* C13: the charge stop is the upper SOC limit; the discharge stop is the lower
\* limit plus the margin times the width of the limits when the grid is available,
\* and the lower limit when it is not; and whenever the discharge stop lies above
\* the charge stop the computation ends in an error: no hour of calculate is
\* completed with such bounds, and a call on the Battery object that computes such
\* bounds raises.
C13_CommonBoundsOrConfigurationError ==
    LET socStopDischarge(SC) ==
            IF SC
            THEN spec.SOC_star_lower
                 + (spec.r_LCP_batt * (spec.SOC_star_upper - spec.SOC_star_lower)) \div S
            ELSE spec.SOC_star_lower
    IN /\ HourDone
             => /\ rec.SOC_star_max = spec.SOC_star_upper
                /\ rec.SOC_star_min = socStopDischarge(rec.SC)
                /\ rec.SOC_star_min <= rec.SOC_star_max
       /\ (entry = "Battery" /\ call.op # "none")
             => /\ call.SOC_star_max = spec.SOC_star_upper
                /\ call.SOC_star_min = socStopDischarge(call.SC)
                /\ call.SOC_star_min > call.SOC_star_max => call.raised

(* ---------------------------------------------------------------------- *)
(* C14                                                                      *)
(* ---------------------------------------------------------------------- *)

\* C14: Battery.calc_E_dash_dash_E_SB_max_d_t raises when the voltage of the
\* maximum charge, the mean open-circuit voltage plus I * R * (SOC difference), or
\* that of the maximum discharge, the mean minus I * R * (SOC difference), is
\* negative; it then returns no bounds and leaves the SOC as it was.  When both are
\* at least 0 it returns I_chg * V_chg / 1000 and I_dchg * V_dchg / 1000.  The two
\* voltage functions raise exactly when their voltage is negative.
C14_NegativeMaxVoltageRaises ==
    LET AvgOCV(SOC_a, SOC_b) ==
            (Battery_f_OCV(SOC_a, 0, 0, spec.V_rtd_batt)
             + Battery_f_OCV(SOC_b, 0, 0, spec.V_rtd_batt)) \div 2
        V_chg(SOC, I) ==
            AvgOCV(SOC, spec.SOC_star_upper) + IRdSOC(I, 500, spec.SOC_star_upper - SOC)
        V_dchg(SOC, SOC_min, I) == AvgOCV(SOC, SOC_min) - IRdSOC(I, 500, SOC - SOC_min)
        C_fc == (spec.W_rtd_batt * S) \div spec.V_rtd_batt
    IN /\ (entry = "Battery" /\ call.op = "max")
             => LET I_chg == C_fc * (spec.SOC_star_upper - call.SOC_before)
                    I_dchg == C_fc * (call.SOC_before - call.SOC_star_min)
                    V_max_chg == V_chg(call.SOC_before, I_chg)
                    V_max_dchg == V_dchg(call.SOC_before, call.SOC_star_min, I_dchg)
                IN /\ call.raised <=> (V_max_chg < 0 \/ V_max_dchg < 0)
                   /\ SOC_d_t = call.SOC_before
                   /\ call.raised
                         => /\ call.max_chg = 0 /\ call.max_dchg = 0
                            /\ err \in {"V_max_chg < 0", "V_max_dchg < 0"}
                   /\ ~call.raised
                         => /\ call.max_chg = ((I_chg \div S) * V_max_chg) \div 100000
                            /\ call.max_dchg = ((I_dchg \div S) * V_max_dchg) \div 100000
       /\ conv.fn = "get_V_max"
             => LET V_max_chg == V_chg(conv.SOC_st0, conv.I_max)
                    V_max_dchg == V_dchg(conv.SOC_st0, spec.SOC_star_lower, conv.I_max)
                IN /\ conv.V_max_chg_d_t.raised <=> V_max_chg < 0
                   /\ conv.V_max_dchg_d_t.raised <=> V_max_dchg < 0
                   /\ ~conv.V_max_chg_d_t.raised => conv.V_max_chg_d_t.v = V_max_chg
                   /\ ~conv.V_max_dchg_d_t.raised => conv.V_max_dchg_d_t.v = V_max_dchg

\* the maximum discharge of a charged battery has a negative voltage: the call
\* after an update has raised
C14_Witness_MaxDischargeRaised ==
    /\ entry = "Battery" /\ call.op = "max" /\ call.n > 1
    /\ call.raised /\ err = "V_max_dchg < 0"
    /\ call.SOC_before > Battery_init(spec).v
    /\ SOC_d_t = call.SOC_before

(* ---------------------------------------------------------------------- *)
(* C15                                                                      *)
(* ---------------------------------------------------------------------- *)

\* C15: with a specification whose lower voltage limit lies above the upper one,
\* or whose lower SOC limit lies above the upper one, constructing the Battery
\* object, or starting calculate, ends in an error before any hour is computed and
\* before any call on the object; with both pairs of limits in order the
\* construction succeeds and calculate enters its loop.
C15_InvertedLimitsFailAtConstruction ==
    (entry \in {"calculate", "Battery"} /\ pc # "start")
        => IF spec.V_star_lower_batt > spec.V_star_upper_batt
              \/ spec.SOC_star_lower > spec.SOC_star_upper
           THEN /\ pc = "failed"
                /\ err = IF spec.V_star_lower_batt > spec.V_star_upper_batt
                         THEN "V_star_upper_batt < V_star_lower_batt"
                         ELSE "SOC_star_lower > SOC_star_upper"
                /\ dt = 0 /\ rec = NoRec /\ call = NoCall /\ SOC_d_t = 0
           ELSE /\ err \notin {"V_star_upper_batt < V_star_lower_batt",
                               "SOC_star_lower > SOC_star_upper"}
                /\ entry = "Battery" => pc = "alive"

\* the construction of a Battery object with the SOC limits exchanged has failed
C15_Witness_InvertedSOCFailed ==
    /\ entry = "Battery"
    /\ spec.SOC_star_lower > spec.SOC_star_upper
    /\ spec.V_star_lower_batt <= spec.V_star_upper_batt
    /\ pc = "failed"
    /\ err = "SOC_star_lower > SOC_star_upper"
    /\ call = NoCall

(* ---------------------------------------------------------------------- *)
(* C16                                                                      *)
(* ---------------------------------------------------------------------- *)

\* C16: the battery type is 3 when the upper voltage limit is at least 1.7 times
\* the lower one, 2 when it is at least 1.45 times and less than 1.7 times the
\* lower one, and 1 otherwise; for the limits 196.8 V and 129.6 V it is 2.
C16_TypeFromVoltageRatio ==
    /\ conv.fn = "get_type_batt"
          => LET upper == conv.V_star_upper_batt
                 lower == conv.V_star_lower_batt
                 type == IF 10 * upper >= 17 * lower THEN 3
                         ELSE IF 100 * upper >= 145 * lower /\ 10 * upper < 17 * lower THEN 2
                         ELSE 1
             IN /\ conv.type_batt = type
                /\ conv.type_batt_B = type
                /\ (upper = 1968 /\ lower = 1296) => conv.type_batt = 2
    /\ (entry = "Battery" /\ pc = "alive" /\ spec = RefSpec) => Battery_type_batt(Self) = 2

\* the type of the reference limits has been computed, by both implementations
C16_Witness_ReferenceLimits ==
    /\ conv.fn = "get_type_batt"
    /\ conv.V_star_upper_batt = 1968 /\ conv.V_star_lower_batt = 1296
    /\ conv.type_batt = 2 /\ conv.type_batt_B = 2

(* ---------------------------------------------------------------------- *)
(* C17                                                                      *)
(* ---------------------------------------------------------------------- *)

\* C17: the SOC with which hour 0 begins is
\* SOC_star_upper * r_int_dchg_batt + SOC_star_lower * (1 - r_int_dchg_batt),
\* whatever the grid flag of hour 0: in calculate the SOC_st0 of the first hour, in
\* a Battery object the SOC before its first call; with the reference
\* specification it is 0.56.
C17_InitialSOCIndependentOfGrid ==
    LET initial == (spec.SOC_star_upper * spec.r_int_dchg_batt
                    + spec.SOC_star_lower * (S - spec.r_int_dchg_batt)) \div S
    IN /\ (HourDone /\ dt = 1)
             => /\ rec.SOC_st0 = initial
                /\ spec = RefSpec => rec.SOC_st0 = 5600
       /\ (entry = "Battery" /\ pc = "alive" /\ call.n = 0)
             => /\ SOC_d_t = initial
                /\ spec = RefSpec => SOC_d_t = 5600
       /\ (entry = "Battery" /\ call.n = 1)
             => call.SOC_before = initial

(* ---------------------------------------------------------------------- *)
(* C18                                                                      *)
(* ---------------------------------------------------------------------- *)

\* C18: when calculate ends in an error in hour t, the message of the error names
\* the quantity whose condition failed and the hour t.
C18_ErrorNamesInvariantAndHour ==
    LET Contains(m, w) ==
            \E i \in 1..(Len(m) - Len(w) + 1) : SubSeq(m, i, i + Len(w) - 1) = w
    IN (/\ entry = "calculate" /\ pc = "failed"
        /\ spec.V_star_lower_batt <= spec.V_star_upper_batt
        /\ spec.SOC_star_lower <= spec.SOC_star_upper)
           => /\ \E w \in {"SOC_star_min", "V_max_chg", "V_max_dchg", "E_dash_dash_E_SB"} :
                     Contains(err, w)
              /\ Contains(err, ToString(dt))

(* ---------------------------------------------------------------------- *)
(* C19                                                                      *)
(* ---------------------------------------------------------------------- *)

\* C19: in every hour of calculate the maximum chargeable and dischargeable
\* energies are computed from the SOC that the update of the previous hour left
\* (in hour 0 from the initial SOC,
\* SOC_star_upper * r_int_dchg_batt + SOC_star_lower * (1 - r_int_dchg_batt)),
\* before the update of the hour; the update is the last step of the hour, and the
\* SOC is written once per hour, by that update.
C19_BoundsFromPreviousSOCThenOneUpdate ==
    [][ entry = "calculate"
           => /\ dt' = dt + 1
                    => LET initial == (spec.SOC_star_upper * spec.r_int_dchg_batt
                                       + spec.SOC_star_lower * (S - spec.r_int_dchg_batt)) \div S
                           SOC_left == IF dt = 0 THEN initial ELSE SOC_st1
                       IN /\ rec'.SOC_st0 = SOC_left
                          /\ \E theta_ex \in Thetas :
                                \E cap \in {calculate_capacity(spec, FALSE, SOC_left, rec'.SOC_star_min,
                                                               rec'.SOC_star_max, theta_ex)} :
                                   /\ rec'.E_dash_dash_E_SB_max_chg = cap.E_dash_dash_E_SB_max_chg
                                   /\ rec'.E_dash_dash_E_SB_max_dchg = cap.E_dash_dash_E_SB_max_dchg
                          /\ SOC_st1' = rec'.SOC_st1
              /\ SOC_st1' # SOC_st1 => dt' = dt + 1 ]_vars

(* ---------------------------------------------------------------------- *)
(* C20                                                                      *)
(* ---------------------------------------------------------------------- *)

\* C20: the SOC is changed by the update alone.  The SOC of a Battery object
\* changes only when it is constructed and in a call of update_SOC_st1_d_t that
\* returns; calc_E_dash_dash_E_SB_max_d_t, with the calc_common_parameters in it,
\* leaves it as it was whether it returns or raises, and so does an update that
\* raises.  The SOC of calculate changes only in the step that completes an hour,
\* to the result of that hour's get_SOC_st1, and not in an hour that raises.  A
\* call of a converter function changes no SOC.
C20_OnlyUpdateChangesSOC ==
    [][ /\ SOC_d_t' # SOC_d_t
              => \/ entry = "Battery" /\ pc = "start" /\ pc' = "alive"
                 \/ /\ entry = "Battery" /\ call'.n = call.n + 1
                    /\ call'.op = "update" /\ ~call'.raised
        /\ (call' # call /\ (call'.op = "max" \/ call'.raised)) => SOC_d_t' = SOC_d_t
        /\ SOC_st1' # SOC_st1
              => entry = "calculate" /\ dt' = dt + 1 /\ rec'.ok /\ SOC_st1' = rec'.SOC_st1
        /\ (pc # "failed" /\ pc' = "failed") => SOC_st1' = SOC_st1 /\ SOC_d_t' = SOC_d_t
        /\ conv' # conv => SOC_st1' = SOC_st1 /\ SOC_d_t' = SOC_d_t ]_vars

\* a call of calc_E_dash_dash_E_SB_max_d_t has returned on an object whose SOC an
\* update had changed, and the SOC is what it was before the call
C20_Witness_MaxAfterUpdateKeepsSOC ==
    /\ entry = "Battery" /\ call.op = "max" /\ ~call.raised /\ call.n = 2
    /\ call.max_chg > 0 /\ call.max_dchg > 0
    /\ SOC_d_t # Battery_init(spec).v
    /\ SOC_d_t = call.SOC_before

(* ---------------------------------------------------------------------- *)
(* C21                                                                      *)
(* ---------------------------------------------------------------------- *)

C22_OperatingFractionAndAuxiliaryDraw ==
    HourDone =>
       LET tau == IF rec.E_dash_dash_E_PV_gen > 0 THEN 1
                  ELSE IF rec.E_dash_dash_E_PV_gen <= 0 /\ rec.E_E_dmd_excl > 0
                          /\ rec.E_dash_dash_E_SB_max_dchg > 0 THEN 1
                  ELSE 0
           draw == (spec.P_aux_PCS_oprt * tau + spec.P_aux_PCS_stby * (1 - tau))
                   + (P_aux_others_oprt * tau + P_aux_others_stby * (1 - tau))
       IN /\ rec.tau_oprt_PSS = tau
          /\ PowerConditioner_get_tau_oprt_PSS_d_t(rec.E_dash_dash_E_PV_gen, rec.E_E_dmd_excl,
                                                    rec.E_dash_dash_E_SB_max_dchg) = tau
          /\ rec.E_E_aux_PCS = spec.P_aux_PCS_oprt * tau + spec.P_aux_PCS_stby * (1 - tau)
          /\ rec.E_E_aux_PSS = draw
          /\ rec.E_E_dmd_incl = rec.E_E_dmd_excl + draw

\* an hour without PV generation and with a demand that the battery, at its
\* discharge stop, cannot serve: the system stands by
C22_Witness_StandbyWithDemand ==
    /\ HourDone
    /\ rec.E_dash_dash_E_PV_gen = 0 /\ rec.E_E_dmd_excl > 0
    /\ rec.E_dash_dash_E_SB_max_dchg = 0
    /\ rec.tau_oprt_PSS = 0
    /\ rec.E_E_dmd_incl = rec.E_E_dmd_excl + spec.P_aux_PCS_stby + P_aux_others_stby

(* ---------------------------------------------------------------------- *)
(* C23                                                                      *)
(* ---------------------------------------------------------------------- *)

\* C23: a discharge beyond what the voltage can carry does not raise.  When an
\* update discharges an energy E with V_OC^2 - 4 R E 1000 below 0, the call returns,
\* the current is the one of a discriminant of 0, V_OC / (2 R) in magnitude, and the
\* new SOC is the previous one less that current over the capacity for the hour,
\* brought within the stop bounds of the hour: by the two comparisons of
\* Battery.get_SOC_st1_d_t in a Battery object, and by the discharge stop, below the
\* charge stop, in calculate.
C23_NegativeDiscriminantIsClamped ==
    /\ (entry = "Battery" /\ call.op = "update" /\ call.chg = 0 /\ call.sup > 0)
          => LET self == [sp |-> spec, SOC_d_t |-> call.SOC_before]
                 C_fc == Battery_get_C_fc_d_t(self)
                 V_OC == Battery_get_V_OC_d_t(self,
                            call.SOC_before - dSOC_hat(call.sup, C_fc, 1, spec.V_rtd_batt), 0)
                 v == call.SOC_before - IdtOverC(Over2R(V_OC, 500), 1, C_fc)
             IN V_OC * V_OC - FourRE(500, call.sup) < 0
                   => /\ ~call.raised
                      /\ SOC_d_t = IF v > call.SOC_star_max THEN call.SOC_star_max
                                   ELSE IF v < call.SOC_star_min THEN call.SOC_star_min
                                   ELSE v
    /\ (HourDone /\ rec.E_dash_dash_E_PV_chg = 0 /\ rec.E_dash_dash_E_SB_sup > 0)
          => LET C_fc == get_C_fc_d_t(get_C_fc_rtd(spec.W_rtd_batt, spec.V_rtd_batt))
                 type_batt == get_type_batt(spec.V_star_upper_batt, spec.V_star_lower_batt)
                 V_OC == (f_OCV(rec.SOC_st0, 0, type_batt, spec.V_rtd_batt)
                          + f_OCV(rec.SOC_st0 - dSOC_hat(rec.E_dash_dash_E_SB_sup, C_fc, 1, spec.V_rtd_batt),
                                  0, type_batt, spec.V_rtd_batt)) \div 2
                 v == rec.SOC_st0 - IdtOverC(Over2R(V_OC, 500), 1, C_fc)
             IN V_OC * V_OC - FourRE(500, rec.E_dash_dash_E_SB_sup) < 0
                   => /\ rec.SOC_st1 = Max(v, rec.SOC_star_min)
                      /\ rec.SOC_star_min <= rec.SOC_star_max => rec.SOC_st1 <= rec.SOC_star_max

\* an update of a Battery object has discharged 15 kWh, more than the voltage can
\* carry, and has lowered the SOC to a value above the discharge stop
C23_Witness_OverDischargeReturned ==
    /\ UpdateReturned /\ call.chg = 0 /\ call.sup = 15000
    /\ LET self == [sp |-> spec, SOC_d_t |-> call.SOC_before]
           V_OC == Battery_get_V_OC_d_t(self,
                      call.SOC_before - dSOC_hat(call.sup, Battery_get_C_fc_d_t(self), 1, spec.V_rtd_batt), 0)
       IN V_OC * V_OC - FourRE(500, call.sup) < 0
    /\ call.SOC_star_min < SOC_d_t /\ SOC_d_t < call.SOC_before

(* ---------------------------------------------------------------------- *)
(* C24                                                                      *)
(* ---------------------------------------------------------------------- *)

\* C24: calculate never charges and discharges in the same hour.  In every completed
\* hour the charge energy and the discharge energy handed to the SOC update are both
\* at least 0 and at most one of them is above 0, and no run of calculate ends with
\* the error of the charging or discharging time, raised for two energies that are
\* both above 0.
C24_AtMostOneOfChargeAndDischarge ==
    /\ HourDone
          => /\ get_E_dash_dash_E_SB_chg(rec.E_dash_dash_E_PV_chg) >= 0
             /\ get_E_dash_dash_E_SB_dchg(rec.E_dash_dash_E_SB_sup) >= 0
             /\ \/ get_E_dash_dash_E_SB_chg(rec.E_dash_dash_E_PV_chg) = 0
                \/ get_E_dash_dash_E_SB_dchg(rec.E_dash_dash_E_SB_sup) = 0
    /\ (entry = "calculate" /\ pc = "failed")
          => /\ err # get_delta_tau_chg(1, 1).msg
             /\ err # get_delta_tau_dchg(1, 1).msg

\* an hour with PV generation below the demand: the battery discharges and nothing
\* is charged
C24_Witness_DischargeWithGeneration ==
    /\ HourDone /\ dt >= 2
    /\ rec.E_dash_dash_E_PV_gen > 0
    /\ rec.E_dash_dash_E_SB_sup > 0 /\ rec.E_dash_dash_E_PV_chg = 0
    /\ rec.SOC_st1 < rec.SOC_st0

(* ---------------------------------------------------------------------- *)
(* C25                                                                      *)
(* ---------------------------------------------------------------------- *)

\* C25: the energies handed to the SOC update stay within the battery's maxima.  In
\* every completed hour the charge energy on the battery side is at most the maximum
\* chargeable energy computed for the hour, and the discharge energy on the battery
\* side is at most the maximum dischargeable energy computed for the hour.
C25_DeviceEnergiesWithinMaxima ==
    HourDone
       => /\ get_E_dash_dash_E_SB_chg(rec.E_dash_dash_E_PV_chg) <= rec.E_dash_dash_E_SB_max_chg
          /\ get_E_dash_dash_E_SB_dchg(rec.E_dash_dash_E_SB_sup) <= rec.E_dash_dash_E_SB_max_dchg

(* ---------------------------------------------------------------------- *)
(* C26                                                                      *)
(* ---------------------------------------------------------------------- *)

\* C26: a full battery takes nothing.  In every completed hour with a surplus above
\* 0 and the grid available in which the battery starts at its charge stop, so that
\* its maximum chargeable energy is 0, the part of the PV energy that charges the
\* battery is 0 and the export is the whole surplus.
C26_FullBatteryExportsWholeSurplus ==
    (/\ HourDone /\ rec.SC /\ rec.E_E_srpl > 0
     /\ rec.SOC_st0 = rec.SOC_star_max /\ rec.E_dash_dash_E_SB_max_chg = 0)
       => /\ rec.E_E_PV_chg = 0
          /\ rec.E_dash_dash_E_PV_chg = 0
          /\ rec.E_E_PV_sell = rec.E_E_srpl

(* ---------------------------------------------------------------------- *)
(* C27                                                                      *)
(* ---------------------------------------------------------------------- *)

\* C27: the maxima are never negative.  In every completed hour of calculate, and
\* in every call of calc_E_dash_dash_E_SB_max_d_t that returns, the maximum
\* chargeable energy and the maximum dischargeable energy are both at least 0,
\* whatever the grid flag of the hour and of the hour before it.
C27_MaximaAreNeverNegative ==
    /\ HourDone
          => /\ rec.E_dash_dash_E_SB_max_chg >= 0
             /\ rec.E_dash_dash_E_SB_max_dchg >= 0
    /\ (entry = "Battery" /\ call.op = "max" /\ ~call.raised)
          => /\ call.max_chg >= 0
             /\ call.max_dchg >= 0

(* ---------------------------------------------------------------------- *)
(* C28                                                                      *)
(* ---------------------------------------------------------------------- *)

\* C28: the dispatch of an hour.  In every completed hour the PV energy consumed in
\* the house, the PV energy exported, the PV energy that charges the battery and the
\* battery discharge consumed in the house are each at least 0; the battery
\* discharge consumed in the house is at most what the battery can supply at the
\* distribution board; and the PV energy and the battery discharge consumed in the
\* house are together at most the demand including the auxiliaries.
C28_DispatchWithinSupplyAndDemand ==
    HourDone
       => /\ rec.E_E_PV_h >= 0
          /\ rec.E_E_PV_sell >= 0
          /\ rec.E_E_PV_chg >= 0
          /\ rec.E_E_PSS_h >= 0
          /\ rec.E_E_PSS_h <= rec.E_E_SB_max_sup
          /\ rec.E_E_PV_h + rec.E_E_PSS_h <= rec.E_E_dmd_incl

\* an hour whose demand is above what the PV and the battery can supply together:
\* the house takes all the PV supply and all the battery can give, and the rest of
\* the demand is left to the grid
C28_Witness_DemandAboveSupply ==
    /\ HourDone
    /\ rec.E_E_PV_h > 0
    /\ rec.E_E_PSS_h > 0 /\ rec.E_E_PSS_h = rec.E_E_SB_max_sup
    /\ rec.E_E_PV_h + rec.E_E_PSS_h < rec.E_E_dmd_incl

(* ---------------------------------------------------------------------- *)
(* C29                                                                      *)
(* ---------------------------------------------------------------------- *)

\* C29: charging never lowers the SOC and discharging never raises it.  After an
\* update of a Battery object that returns, and after every completed hour of
\* calculate, the SOC is not below the previous SOC when the charge energy was
\* above 0 and not above the previous SOC when the discharge energy was above 0,
\* whatever the previous SOC and the grid flag.
C29_ChargeNeverLowersDischargeNeverRaises ==
    /\ UpdateReturned
          => /\ call.chg > 0 => SOC_d_t >= call.SOC_before
             /\ call.sup > 0 => SOC_d_t <= call.SOC_before
    /\ HourDone
          => /\ rec.E_dash_dash_E_PV_chg > 0 => rec.SOC_st1 >= rec.SOC_st0
             /\ rec.E_dash_dash_E_SB_sup > 0 => rec.SOC_st1 <= rec.SOC_st0

(* ---------------------------------------------------------------------- *)
(* C30                                                                      *)
(* ---------------------------------------------------------------------- *)

\* C30: the class and the functions agree.  After every update of a Battery object
\* that returns, the SOC of the object is the SOC_st1 that the functions of
\* pvbatt.calculate (the operable capacity from the previous SOC, the SOC at the
\* start of the hour, the charging and discharging times, the open-circuit voltage,
\* the currents and get_SOC_st1) give for the same specification, the same charge
\* and discharge energies, the same temperature and the same grid flag, from the SOC
\* the object had before the update.
C30_BatteryAgreesWithFunctionalPipeline ==
    UpdateReturned
       => \A theta_ex \in Thetas :
             LET cap == calculate_capacity(spec, FALSE, call.SOC_before,
                           get_SOC_star_min(spec.SOC_star_lower, spec.SOC_star_upper,
                                            spec.r_LCP_batt, call.SC),
                           get_SOC_star_max(spec.SOC_star_upper), theta_ex)
                 upd == calculate_update(spec, cap, get_E_dash_dash_E_SB_chg(call.chg),
                                         get_E_dash_dash_E_SB_dchg(call.sup))
             IN upd.ok /\ upd.SOC_st1 = SOC_d_t

====
